---- MODULE Spec2Model ----
(***************************************************************************)
(* A model of splitwise_ynab_sync: the memo tag codec (utils.py), the      *)
(* forward pass sw_to_ynab (main.py) against a model of the YNAB ledger    *)
(* (ynab.py), and the process entry point (main.py, __main__).             *)
(*                                                                         *)
(* Text is modelled as a sequence of one-character strings, so that        *)
(* formatting (f-strings, str) and parsing (re.search, int) are computed.  *)
(* Timestamps of the form %Y-%m-%dT%H:%M:%SZ are modelled as a number of   *)
(* ticks, TicksPerDay ticks to a calendar day.                             *)
(***************************************************************************)
EXTENDS Integers, Sequences, FiniteSets, TLC

VARIABLES
    codec_in,            \* SpecCodec: the arguments of the utils.py functions
    codec_out,           \* SpecCodec: their results
    sw_expenses,         \* the expenses of Splitwise: what get_expenses
                         \* yields, then what create_expense added
    ynab_transactions,   \* the ledger: regular transactions of the account
    ynab_scheduled,      \* the ledger: scheduled transactions of the budget
    now,                 \* datetime.now(), in ticks
    pass,                \* the locals and the calls of the last sw_to_ynab
    prev,                \* Spec: the ledger writes of the pass before it
    users,               \* SpecMain: multi_user_secrets, one record per user
    main,                \* SpecMain: the position and result of __main__,
                         \* os.environ and creds.yaml
    sw_fetch,            \* SpecFetch: the objects of Splitwise and what
                         \* get_expenses yields for them
    split                \* SpecSplit: a ledger transaction and what
                         \* update_ynab makes of it

vars == <<codec_in, codec_out, sw_expenses, ynab_transactions, ynab_scheduled,
          now, pass, prev, users, main, sw_fetch, split>>

(***************************************************************************)
(* Bounds of the model.                                                    *)
(***************************************************************************)
MaxCodecId == 12         \* SpecCodec: expense ids 0..MaxCodecId
MaxSwId == 2             \* Spec, SpecBatch: expense ids 1..MaxSwId
MaxTick == 3             \* expense dates 0..MaxTick
MaxFetch == 2            \* SpecBatch: records returned by one fetch
MaxUsers == 2            \* SpecMain: entries of multi_user_secrets
MaxLedger == 2           \* Spec: no pass starts on a ledger larger than this
MaxAmount == 25          \* SpecSplit: ledger amounts -MaxAmount..MaxAmount

TicksPerDay == 2

(***************************************************************************)
(* Python values.                                                          *)
(***************************************************************************)
None == 0 - 1                      \* None where an int is expected
NoneText == <<"N", "o", "n", "e">> \* None where text is expected (no regex
                                   \* group equals it: a group of \[SWID..\]
                                   \* starts with "[", \d+ has no letter and
                                   \* the hashes of the model are hex)

(***************************************************************************)
(* Characters. A text is a sequence of characters; a character of ASCII    *)
(* is the string of that character, any other character is the string      *)
(* "U+" and its code point in hexadecimal ("U+00E9" is e with acute). The  *)
(* alphabet of the model is ASCII, Latin-1 (up to U+00FF), every decimal   *)
(* digit and every white space character of Unicode 14.                    *)
(***************************************************************************)
\* the decimal digits (the class \d of a str pattern; int() takes them
\* all), in the order of their code points: the ten digits of a script
\* follow each other, so the digit at place k has the value (k - 1) % 10.
\* The first ten are the digits str() of an int is made of.
DigitChars ==
    <<"0", "1", "2", "3", "4", "5", "6", "7", "8", "9", "U+0660",
      "U+0661", "U+0662", "U+0663", "U+0664", "U+0665", "U+0666",
      "U+0667", "U+0668", "U+0669", "U+06F0", "U+06F1", "U+06F2",
      "U+06F3", "U+06F4", "U+06F5", "U+06F6", "U+06F7", "U+06F8",
      "U+06F9", "U+07C0", "U+07C1", "U+07C2", "U+07C3", "U+07C4",
      "U+07C5", "U+07C6", "U+07C7", "U+07C8", "U+07C9", "U+0966",
      "U+0967", "U+0968", "U+0969", "U+096A", "U+096B", "U+096C",
      "U+096D", "U+096E", "U+096F", "U+09E6", "U+09E7", "U+09E8",
      "U+09E9", "U+09EA", "U+09EB", "U+09EC", "U+09ED", "U+09EE",
      "U+09EF", "U+0A66", "U+0A67", "U+0A68", "U+0A69", "U+0A6A",
      "U+0A6B", "U+0A6C", "U+0A6D", "U+0A6E", "U+0A6F", "U+0AE6",
      "U+0AE7", "U+0AE8", "U+0AE9", "U+0AEA", "U+0AEB", "U+0AEC",
      "U+0AED", "U+0AEE", "U+0AEF", "U+0B66", "U+0B67", "U+0B68",
      "U+0B69", "U+0B6A", "U+0B6B", "U+0B6C", "U+0B6D", "U+0B6E",
      "U+0B6F", "U+0BE6", "U+0BE7", "U+0BE8", "U+0BE9", "U+0BEA",
      "U+0BEB", "U+0BEC", "U+0BED", "U+0BEE", "U+0BEF", "U+0C66",
      "U+0C67", "U+0C68", "U+0C69", "U+0C6A", "U+0C6B", "U+0C6C",
      "U+0C6D", "U+0C6E", "U+0C6F", "U+0CE6", "U+0CE7", "U+0CE8",
      "U+0CE9", "U+0CEA", "U+0CEB", "U+0CEC", "U+0CED", "U+0CEE",
      "U+0CEF", "U+0D66", "U+0D67", "U+0D68", "U+0D69", "U+0D6A",
      "U+0D6B", "U+0D6C", "U+0D6D", "U+0D6E", "U+0D6F", "U+0DE6",
      "U+0DE7", "U+0DE8", "U+0DE9", "U+0DEA", "U+0DEB", "U+0DEC",
      "U+0DED", "U+0DEE", "U+0DEF", "U+0E50", "U+0E51", "U+0E52",
      "U+0E53", "U+0E54", "U+0E55", "U+0E56", "U+0E57", "U+0E58",
      "U+0E59", "U+0ED0", "U+0ED1", "U+0ED2", "U+0ED3", "U+0ED4",
      "U+0ED5", "U+0ED6", "U+0ED7", "U+0ED8", "U+0ED9", "U+0F20",
      "U+0F21", "U+0F22", "U+0F23", "U+0F24", "U+0F25", "U+0F26",
      "U+0F27", "U+0F28", "U+0F29", "U+1040", "U+1041", "U+1042",
      "U+1043", "U+1044", "U+1045", "U+1046", "U+1047", "U+1048",
      "U+1049", "U+1090", "U+1091", "U+1092", "U+1093", "U+1094",
      "U+1095", "U+1096", "U+1097", "U+1098", "U+1099", "U+17E0",
      "U+17E1", "U+17E2", "U+17E3", "U+17E4", "U+17E5", "U+17E6",
      "U+17E7", "U+17E8", "U+17E9", "U+1810", "U+1811", "U+1812",
      "U+1813", "U+1814", "U+1815", "U+1816", "U+1817", "U+1818",
      "U+1819", "U+1946", "U+1947", "U+1948", "U+1949", "U+194A",
      "U+194B", "U+194C", "U+194D", "U+194E", "U+194F", "U+19D0",
      "U+19D1", "U+19D2", "U+19D3", "U+19D4", "U+19D5", "U+19D6",
      "U+19D7", "U+19D8", "U+19D9", "U+1A80", "U+1A81", "U+1A82",
      "U+1A83", "U+1A84", "U+1A85", "U+1A86", "U+1A87", "U+1A88",
      "U+1A89", "U+1A90", "U+1A91", "U+1A92", "U+1A93", "U+1A94",
      "U+1A95", "U+1A96", "U+1A97", "U+1A98", "U+1A99", "U+1B50",
      "U+1B51", "U+1B52", "U+1B53", "U+1B54", "U+1B55", "U+1B56",
      "U+1B57", "U+1B58", "U+1B59", "U+1BB0", "U+1BB1", "U+1BB2",
      "U+1BB3", "U+1BB4", "U+1BB5", "U+1BB6", "U+1BB7", "U+1BB8",
      "U+1BB9", "U+1C40", "U+1C41", "U+1C42", "U+1C43", "U+1C44",
      "U+1C45", "U+1C46", "U+1C47", "U+1C48", "U+1C49", "U+1C50",
      "U+1C51", "U+1C52", "U+1C53", "U+1C54", "U+1C55", "U+1C56",
      "U+1C57", "U+1C58", "U+1C59", "U+A620", "U+A621", "U+A622",
      "U+A623", "U+A624", "U+A625", "U+A626", "U+A627", "U+A628",
      "U+A629", "U+A8D0", "U+A8D1", "U+A8D2", "U+A8D3", "U+A8D4",
      "U+A8D5", "U+A8D6", "U+A8D7", "U+A8D8", "U+A8D9", "U+A900",
      "U+A901", "U+A902", "U+A903", "U+A904", "U+A905", "U+A906",
      "U+A907", "U+A908", "U+A909", "U+A9D0", "U+A9D1", "U+A9D2",
      "U+A9D3", "U+A9D4", "U+A9D5", "U+A9D6", "U+A9D7", "U+A9D8",
      "U+A9D9", "U+A9F0", "U+A9F1", "U+A9F2", "U+A9F3", "U+A9F4",
      "U+A9F5", "U+A9F6", "U+A9F7", "U+A9F8", "U+A9F9", "U+AA50",
      "U+AA51", "U+AA52", "U+AA53", "U+AA54", "U+AA55", "U+AA56",
      "U+AA57", "U+AA58", "U+AA59", "U+ABF0", "U+ABF1", "U+ABF2",
      "U+ABF3", "U+ABF4", "U+ABF5", "U+ABF6", "U+ABF7", "U+ABF8",
      "U+ABF9", "U+FF10", "U+FF11", "U+FF12", "U+FF13", "U+FF14",
      "U+FF15", "U+FF16", "U+FF17", "U+FF18", "U+FF19", "U+104A0",
      "U+104A1", "U+104A2", "U+104A3", "U+104A4", "U+104A5", "U+104A6",
      "U+104A7", "U+104A8", "U+104A9", "U+10D30", "U+10D31", "U+10D32",
      "U+10D33", "U+10D34", "U+10D35", "U+10D36", "U+10D37", "U+10D38",
      "U+10D39", "U+11066", "U+11067", "U+11068", "U+11069", "U+1106A",
      "U+1106B", "U+1106C", "U+1106D", "U+1106E", "U+1106F", "U+110F0",
      "U+110F1", "U+110F2", "U+110F3", "U+110F4", "U+110F5", "U+110F6",
      "U+110F7", "U+110F8", "U+110F9", "U+11136", "U+11137", "U+11138",
      "U+11139", "U+1113A", "U+1113B", "U+1113C", "U+1113D", "U+1113E",
      "U+1113F", "U+111D0", "U+111D1", "U+111D2", "U+111D3", "U+111D4",
      "U+111D5", "U+111D6", "U+111D7", "U+111D8", "U+111D9", "U+112F0",
      "U+112F1", "U+112F2", "U+112F3", "U+112F4", "U+112F5", "U+112F6",
      "U+112F7", "U+112F8", "U+112F9", "U+11450", "U+11451", "U+11452",
      "U+11453", "U+11454", "U+11455", "U+11456", "U+11457", "U+11458",
      "U+11459", "U+114D0", "U+114D1", "U+114D2", "U+114D3", "U+114D4",
      "U+114D5", "U+114D6", "U+114D7", "U+114D8", "U+114D9", "U+11650",
      "U+11651", "U+11652", "U+11653", "U+11654", "U+11655", "U+11656",
      "U+11657", "U+11658", "U+11659", "U+116C0", "U+116C1", "U+116C2",
      "U+116C3", "U+116C4", "U+116C5", "U+116C6", "U+116C7", "U+116C8",
      "U+116C9", "U+11730", "U+11731", "U+11732", "U+11733", "U+11734",
      "U+11735", "U+11736", "U+11737", "U+11738", "U+11739", "U+118E0",
      "U+118E1", "U+118E2", "U+118E3", "U+118E4", "U+118E5", "U+118E6",
      "U+118E7", "U+118E8", "U+118E9", "U+11950", "U+11951", "U+11952",
      "U+11953", "U+11954", "U+11955", "U+11956", "U+11957", "U+11958",
      "U+11959", "U+11C50", "U+11C51", "U+11C52", "U+11C53", "U+11C54",
      "U+11C55", "U+11C56", "U+11C57", "U+11C58", "U+11C59", "U+11D50",
      "U+11D51", "U+11D52", "U+11D53", "U+11D54", "U+11D55", "U+11D56",
      "U+11D57", "U+11D58", "U+11D59", "U+11DA0", "U+11DA1", "U+11DA2",
      "U+11DA3", "U+11DA4", "U+11DA5", "U+11DA6", "U+11DA7", "U+11DA8",
      "U+11DA9", "U+16A60", "U+16A61", "U+16A62", "U+16A63", "U+16A64",
      "U+16A65", "U+16A66", "U+16A67", "U+16A68", "U+16A69", "U+16AC0",
      "U+16AC1", "U+16AC2", "U+16AC3", "U+16AC4", "U+16AC5", "U+16AC6",
      "U+16AC7", "U+16AC8", "U+16AC9", "U+16B50", "U+16B51", "U+16B52",
      "U+16B53", "U+16B54", "U+16B55", "U+16B56", "U+16B57", "U+16B58",
      "U+16B59", "U+1D7CE", "U+1D7CF", "U+1D7D0", "U+1D7D1", "U+1D7D2",
      "U+1D7D3", "U+1D7D4", "U+1D7D5", "U+1D7D6", "U+1D7D7", "U+1D7D8",
      "U+1D7D9", "U+1D7DA", "U+1D7DB", "U+1D7DC", "U+1D7DD", "U+1D7DE",
      "U+1D7DF", "U+1D7E0", "U+1D7E1", "U+1D7E2", "U+1D7E3", "U+1D7E4",
      "U+1D7E5", "U+1D7E6", "U+1D7E7", "U+1D7E8", "U+1D7E9", "U+1D7EA",
      "U+1D7EB", "U+1D7EC", "U+1D7ED", "U+1D7EE", "U+1D7EF", "U+1D7F0",
      "U+1D7F1", "U+1D7F2", "U+1D7F3", "U+1D7F4", "U+1D7F5", "U+1D7F6",
      "U+1D7F7", "U+1D7F8", "U+1D7F9", "U+1D7FA", "U+1D7FB", "U+1D7FC",
      "U+1D7FD", "U+1D7FE", "U+1D7FF", "U+1E140", "U+1E141", "U+1E142",
      "U+1E143", "U+1E144", "U+1E145", "U+1E146", "U+1E147", "U+1E148",
      "U+1E149", "U+1E2F0", "U+1E2F1", "U+1E2F2", "U+1E2F3", "U+1E2F4",
      "U+1E2F5", "U+1E2F6", "U+1E2F7", "U+1E2F8", "U+1E2F9", "U+1E950",
      "U+1E951", "U+1E952", "U+1E953", "U+1E954", "U+1E955", "U+1E956",
      "U+1E957", "U+1E958", "U+1E959", "U+1FBF0", "U+1FBF1", "U+1FBF2",
      "U+1FBF3", "U+1FBF4", "U+1FBF5", "U+1FBF6", "U+1FBF7", "U+1FBF8",
      "U+1FBF9">>

DecimalDigits == {DigitChars[k] : k \in 1..Len(DigitChars)}

IsDigit(c) == c \in DecimalDigits

\* the characters of the alphabet that the class \w of a str pattern holds
\* besides the decimal digits and "_" (str.isalnum: letters and numerics)
Letters ==
    {"A", "B", "C", "D", "E", "F", "G", "H", "I", "J", "K", "L", "M", "N",
     "O", "P", "Q", "R", "S", "T", "U", "V", "W", "X", "Y", "Z", "a", "b",
     "c", "d", "e", "f", "g", "h", "i", "j", "k", "l", "m", "n", "o", "p",
     "q", "r", "s", "t", "u", "v", "w", "x", "y", "z", "U+00AA", "U+00B2",
     "U+00B3", "U+00B5", "U+00B9", "U+00BA", "U+00BC", "U+00BD", "U+00BE",
     "U+00C0", "U+00C1", "U+00C2", "U+00C3", "U+00C4", "U+00C5", "U+00C6",
     "U+00C7", "U+00C8", "U+00C9", "U+00CA", "U+00CB", "U+00CC", "U+00CD",
     "U+00CE", "U+00CF", "U+00D0", "U+00D1", "U+00D2", "U+00D3", "U+00D4",
     "U+00D5", "U+00D6", "U+00D8", "U+00D9", "U+00DA", "U+00DB", "U+00DC",
     "U+00DD", "U+00DE", "U+00DF", "U+00E0", "U+00E1", "U+00E2", "U+00E3",
     "U+00E4", "U+00E5", "U+00E6", "U+00E7", "U+00E8", "U+00E9", "U+00EA",
     "U+00EB", "U+00EC", "U+00ED", "U+00EE", "U+00EF", "U+00F0", "U+00F1",
     "U+00F2", "U+00F3", "U+00F4", "U+00F5", "U+00F6", "U+00F8", "U+00F9",
     "U+00FA", "U+00FB", "U+00FC", "U+00FD", "U+00FE", "U+00FF"}

\* the class \w of re
IsWord(c) == c = "_" \/ c \in Letters \/ IsDigit(c)

\* str(n) of an int, as f"{expense_id}" formats it
RECURSIVE Str(_)
Str(n) ==
    IF n < 0 THEN <<"-">> \o Str(0 - n)
    ELSE IF n < 10 THEN <<DigitChars[n + 1]>>
    ELSE Str(n \div 10) \o <<DigitChars[(n % 10) + 1]>>

\* int() of one decimal digit
DigitValue(c) ==
    ((CHOOSE k \in 1..Len(DigitChars) : DigitChars[k] = c) - 1) % 10

\* int(s) of a non-empty run of digits
RECURSIVE ParseInt(_)
ParseInt(s) ==
    IF Len(s) = 1 THEN DigitValue(s[1])
    ELSE 10 * ParseInt(SubSeq(s, 1, Len(s) - 1)) + DigitValue(s[Len(s)])

(***************************************************************************)
(* utils.py                                                                *)
(***************************************************************************)
\* hashlib.md5(updated_at.encode()).hexdigest()[:4] on the timestamps of the
\* model (the values are those of MD5; the second and the first collide)
MD5Prefix ==
    [t \in {"", "2025-06-01T10:00:00Z", "2025-06-01T17:34:00Z",
            "2025-06-02T10:00:00Z", "2025-06-03T10:00:00Z"} |->
        CASE t = "" -> <<"d", "4", "1", "d">>
          [] t = "2025-06-01T10:00:00Z" -> <<"a", "4", "8", "4">>
          [] t = "2025-06-01T17:34:00Z" -> <<"a", "4", "8", "4">>
          [] t = "2025-06-02T10:00:00Z" -> <<"6", "4", "6", "f">>
          [] t = "2025-06-03T10:00:00Z" -> <<"f", "8", "c", "5">>]

generate_truncated_hash_for_updated_time(updated_at) == MD5Prefix[updated_at]

TagOpen == <<"[", "S", "W", "I", "D", ":">>

construct_memo_swid_tag(expense_id, updated_at) ==
    TagOpen \o Str(expense_id) \o <<"-">>
        \o generate_truncated_hash_for_updated_time(updated_at) \o <<"]">>

\* the end of the longest run of digits (isdigit) or of word characters that
\* starts at position i of s (i - 1 when s[i] is not of the class): a greedy
\* \d+ or \w+
RECURSIVE RunEnd(_, _, _)
RunEnd(s, i, isdigit) ==
    IF i <= Len(s) /\ (IF isdigit THEN IsDigit(s[i]) ELSE IsWord(s[i]))
    THEN RunEnd(s, i + 1, isdigit)
    ELSE i - 1

\* (None, None, None)
NoMatch == [full |-> NoneText, id |-> None, hash |-> NoneText]

\* MatchAt with \d for \d+: one digit of the id only
MatchAtOneDigit(memo, i) ==
    LET d1 == i + Len(TagOpen)
        d2 == IF d1 <= Len(memo) /\ IsDigit(memo[d1]) THEN d1 ELSE d1 - 1
        w1 == d2 + 2
        w2 == RunEnd(memo, w1, FALSE)
    IN  IF /\ i + Len(TagOpen) - 1 <= Len(memo)
           /\ SubSeq(memo, i, i + Len(TagOpen) - 1) = TagOpen
           /\ d2 >= d1
           /\ d2 + 1 <= Len(memo) /\ memo[d2 + 1] = "-"
           /\ w2 >= w1
           /\ w2 + 1 <= Len(memo) /\ memo[w2 + 1] = "]"
        THEN [full |-> SubSeq(memo, i, w2 + 1),
              id |-> ParseInt(SubSeq(memo, d1, d2)),
              hash |-> SubSeq(memo, w1, w2)]
        ELSE NoMatch

\* re.match of \[SWID:(\d+)-(\w+)\] at position i of memo. Neither "-" is a
\* digit nor "]" a word character, so that the match, if any, takes the
\* longest run of each class and no backtracking finds another.
MatchAt(memo, i) ==
    LET d1 == i + Len(TagOpen)
        d2 == RunEnd(memo, d1, TRUE)
        w1 == d2 + 2
        w2 == RunEnd(memo, w1, FALSE)
    IN  IF /\ i + Len(TagOpen) - 1 <= Len(memo)
           /\ SubSeq(memo, i, i + Len(TagOpen) - 1) = TagOpen
           /\ d2 >= d1
           /\ d2 + 1 <= Len(memo) /\ memo[d2 + 1] = "-"
           /\ w2 >= w1
           /\ w2 + 1 <= Len(memo) /\ memo[w2 + 1] = "]"
        THEN [full |-> SubSeq(memo, i, w2 + 1),
              id |-> ParseInt(SubSeq(memo, d1, d2)),
              hash |-> SubSeq(memo, w1, w2)]
        ELSE NoMatch

RECURSIVE SearchFrom(_, _)
SearchFrom(memo, i) ==
    IF i > Len(memo) THEN NoMatch
    ELSE IF MatchAt(memo, i) # NoMatch THEN MatchAt(memo, i)
    ELSE SearchFrom(memo, i + 1)

\* (match.group(0), int(match.group(1)), match.group(2)) of the first match,
\* or (None, None, None)
extract_swid_from_memo(memo) == SearchFrom(memo, 1)

\* "if not x" of an Optional[int]: None and 0 are false
NotInt(x) == x = None \/ x = 0

\* sw_expense: [swid: text, updated_time: string]; ynab_transaction: [memo]
check_if_needs_to_update(sw_expense, ynab_transaction) ==
    LET expense_swid == extract_swid_from_memo(sw_expense.swid).id
        y == extract_swid_from_memo(ynab_transaction.memo)
    IN  IF NotInt(expense_swid) THEN FALSE
        ELSE IF NotInt(y.id) THEN FALSE
        ELSE IF y.id # expense_swid THEN FALSE
        ELSE IF sw_expense.updated_time = "" THEN FALSE
        ELSE /\ y.id = expense_swid
             /\ generate_truncated_hash_for_updated_time(sw_expense.updated_time)
                    # y.hash

combine_names(string_list) ==
    IF Len(string_list) = 0 THEN <<>>
    ELSE IF Len(string_list) = 1 THEN string_list[1]
    ELSE LET RECURSIVE Join(_)
             Join(k) == IF k = 1 THEN string_list[1]
                        ELSE Join(k - 1) \o <<",", " ">> \o string_list[k]
         IN  Join(Len(string_list) - 1) \o <<" ", "a", "n", "d", " ">>
                 \o string_list[Len(string_list)]

(***************************************************************************)
(* SpecCodec: the functions of utils.py applied to arguments drawn from    *)
(* bounded sets. The expense is one get_expenses builds (sw.py:165-176):   *)
(* its tag is construct_memo_swid_tag(id, updated_time). The memo is a     *)
(* ledger memo: text around at most one tag.                               *)
(***************************************************************************)
CodecTimes ==
    {"2025-06-01T10:00:00Z", "2025-06-01T17:34:00Z", "2025-06-02T10:00:00Z"}

\* text before a tag in a memo: none of these holds a whole tag
Prefixes ==
    {<<>>, <<"C", "a", "f", "U+00E9", " ">>, <<"[", "S", "W", "I", "D", ":", "1">>,
     <<"[", "S", "W", "I", "D", ":", "1", "-", "x">>}

\* text after a tag in a memo
Suffixes == {<<>>, <<" ", "7", "]">>, <<"-", "a", "b", "]">>}

Idle == [done |-> FALSE, tag |-> <<>>, extracted |-> NoMatch,
         embedded |-> NoMatch, needs_update |-> FALSE]

NoCodec == [expense_id |-> 0, updated_at |-> "", has_swid |-> FALSE,
            prefix |-> <<>>, suffix |-> <<>>, memo_id |-> 0,
            memo_time |-> "", memo_tagged |-> FALSE]

CodecInputs ==
    [expense_id : 0..MaxCodecId, updated_at : CodecTimes, has_swid : BOOLEAN,
     prefix : Prefixes, suffix : Suffixes, memo_id : 0..MaxCodecId,
     memo_time : CodecTimes, memo_tagged : BOOLEAN]

\* the expense dict of the call, as far as utils.py reads it
CodecExpense(in) ==
    [swid |-> IF in.has_swid
              THEN construct_memo_swid_tag(in.expense_id, in.updated_at)
              ELSE <<>>,
     updated_time |-> in.updated_at]

\* the ledger transaction of the call, as far as utils.py reads it (without
\* a tag, the two texts are apart, as together they could spell one)
CodecTransaction(in) ==
    [memo |-> IF in.memo_tagged
              THEN in.prefix \o construct_memo_swid_tag(in.memo_id, in.memo_time)
                       \o in.suffix
              ELSE in.prefix \o <<" ">> \o in.suffix]

CallUtils ==
    /\ ~codec_out.done
    /\ codec_out' =
        [done |-> TRUE,
         tag |-> construct_memo_swid_tag(codec_in.expense_id, codec_in.updated_at),
         extracted |-> extract_swid_from_memo(
             construct_memo_swid_tag(codec_in.expense_id, codec_in.updated_at)),
         embedded |-> extract_swid_from_memo(
             codec_in.prefix
                 \o construct_memo_swid_tag(codec_in.expense_id, codec_in.updated_at)
                 \o codec_in.suffix),
         needs_update |-> check_if_needs_to_update(
             CodecExpense(codec_in), CodecTransaction(codec_in))]
    /\ UNCHANGED <<split, sw_fetch, codec_in, sw_expenses, ynab_transactions, ynab_scheduled,
                   now, pass, prev, users, main>>

(***************************************************************************)
(* main.py: the forward pass sw_to_ynab.                                   *)
(*                                                                         *)
(* An expense is the dict get_expenses yields: [id, description, cost,     *)
(* owed, date, deleted_time, updated_time, group_name, swid, users,        *)
(* current_user_paid]; date is in ticks, None when the key is absent;      *)
(* deleted_time is TRUE when it is set; cost and owed are whole currency   *)
(* units, for which int(x * 1000) is exact.                                *)
(* A transaction is the dict sent to or returned by YNAB: [id, account_id, *)
(* date, amount, payee_name, memo, cleared, subtransactions, import_id,    *)
(* frequency], an absent key being None or NoneText. A payload carries the *)
(* date of the expense in ticks; the ledger keeps the calendar day.        *)
(***************************************************************************)
\* datetime.strptime(expense["date"], "%Y-%m-%dT%H:%M:%SZ").date()
DateOf(tick) == tick \div TicksPerDay

\* int(x * 1000) of a whole amount
Milliunits(x) == x * 1000

\* the white space of str.strip() (str.isspace)
Whitespace ==
    {"\t", "\n", "U+000B", "\f", "\r", "U+001C", "U+001D", "U+001E", "U+001F",
     " ", "U+0085", "U+00A0", "U+1680", "U+2000", "U+2001", "U+2002",
     "U+2003", "U+2004", "U+2005", "U+2006", "U+2007", "U+2008", "U+2009",
     "U+200A", "U+2028", "U+2029", "U+202F", "U+205F", "U+3000"}

\* str.strip()
RECURSIVE Strip(_)
Strip(s) ==
    IF Len(s) = 0 THEN s
    ELSE IF s[1] \in Whitespace THEN Strip(Tail(s))
    ELSE IF s[Len(s)] \in Whitespace THEN Strip(SubSeq(s, 1, Len(s) - 1))
    ELSE s

SplitwiseText == <<"S", "p", "l", "i", "t", "w", "i", "s", "e">>

\* _add_transaction_to_swid_map: the map with the transaction registered
\* under the id of its memo tag, if it has one
_add_transaction_to_swid_map(swid_transaction_map, transaction) ==
    LET sw_id == extract_swid_from_memo(transaction.memo).id
    IN  IF Len(transaction.memo) = 0 THEN swid_transaction_map
        ELSE IF sw_id = None THEN swid_transaction_map
        ELSE [k \in DOMAIN swid_transaction_map \cup {sw_id} |->
                 IF k = sw_id THEN transaction ELSE swid_transaction_map[k]]

\* The maps ynab_swid_to_transaction_mapping(since_date) can return. YNAB
\* returns the regular transactions dated since_date or later and all the
\* scheduled ones, each list in an order the code does not control; the loop
\* registers them in list order, regular before scheduled, so that for each
\* id the last transaction of the concatenated list stays: a scheduled one
\* if any carries the id, else a regular one.
ynab_swid_to_transaction_mapping(transactions, scheduled, since_date) ==
    LET visible == {t \in transactions : t.date >= since_date}
        SwidOf(t) == extract_swid_from_memo(t.memo).id
        Tagged(S) == {t \in S : Len(t.memo) > 0 /\ SwidOf(t) # None}
        keys == {SwidOf(t) : t \in Tagged(visible) \cup Tagged(scheduled)}
        Last(k) ==
            IF \E t \in Tagged(scheduled) : SwidOf(t) = k
            THEN {t \in Tagged(scheduled) : SwidOf(t) = k}
            ELSE {t \in Tagged(visible) : SwidOf(t) = k}
    IN  {m \in [keys -> Tagged(visible) \cup Tagged(scheduled)] :
            \A k \in keys : m[k] \in Last(k)}

\* main.py:150-181: the expenses that have a date, those without a tag in
\* fetch order, then the one kept for each tag id in the order the ids were
\* first seen. latest is the dict latest_expenses_by_swid as a sequence of
\* [swid, expense] (a Python dict keeps the order of insertion).
RECURSIVE CollapseFrom(_, _, _, _)
CollapseFrom(expenses, i, valid_expenses, latest) ==
    IF i > Len(expenses)
    THEN valid_expenses \o [j \in 1..Len(latest) |-> latest[j].expense]
    ELSE LET expense == expenses[i]
             expense_swid == extract_swid_from_memo(expense.swid).id
             at == {j \in 1..Len(latest) : latest[j].swid = expense_swid}
         IN  IF expense.date = None
             THEN CollapseFrom(expenses, i + 1, valid_expenses, latest)
             ELSE IF Len(expense.swid) = 0
             THEN CollapseFrom(expenses, i + 1,
                               Append(valid_expenses, expense), latest)
             ELSE IF at = {}
             THEN CollapseFrom(expenses, i + 1, valid_expenses,
                      Append(latest, [swid |-> expense_swid, expense |-> expense]))
             ELSE LET j == CHOOSE j \in at : TRUE
                  IN  IF expense.date > latest[j].expense.date
                      THEN CollapseFrom(expenses, i + 1, valid_expenses,
                               [latest EXCEPT ![j].expense = expense])
                      ELSE CollapseFrom(expenses, i + 1, valid_expenses, latest)

LatestExpenses(expenses) == CollapseFrom(expenses, 1, <<>>, <<>>)

\* min([... .date() for expense in valid_expenses])
EarliestDate(valid_expenses) ==
    LET days == {DateOf(valid_expenses[j].date) : j \in 1..Len(valid_expenses)}
    IN  CHOOSE d \in days : \A e \in days : d <= e

\* YNABClient.create_import_id with the random import_hash of main.py:289,
\* which no two transactions share: YNAB never takes a new transaction for
\* an import it has seen
create_import_id(amount, date) ==
    [amount |-> amount, date |-> date, import_hash |-> "token_hex"]

NoImportId == [amount |-> 0, date |-> None, import_hash |-> "None"]

\* BuildTransaction with the second sub-line carrying what the current user
\* paid, the amount of the transaction itself, not what is owed
BuildTransactionPaidTwice(expense) ==
    LET total_cost == 0 - Milliunits(expense.cost)
        what_i_paid == 0 - (Milliunits(expense.cost) - Milliunits(expense.owed))
        what_i_am_owed == Milliunits(expense.owed)
        payee == IF Len(expense.group_name) > 0 THEN expense.group_name
                 ELSE SplitwiseText
        amount == IF expense.current_user_paid THEN what_i_am_owed
                  ELSE what_i_paid
        memo == IF expense.current_user_paid THEN expense.description
                ELSE Strip(expense.description) \o <<" ", "w", "i", "t", "h", " ">>
                         \o combine_names(expense.users)
    IN  [id |-> None,
         account_id |-> "ynab_account_id",
         date |-> expense.date,
         amount |-> amount,
         payee_name |-> payee,
         memo |-> IF Len(expense.swid) > 0 THEN memo \o <<" ">> \o expense.swid
                  ELSE memo,
         cleared |-> "cleared",
         subtransactions |->
             IF expense.current_user_paid THEN <<>>
             ELSE <<[amount |-> total_cost,
                     payee_name |-> expense.description,
                     memo |-> <<"T", "o", "t", "a", "l", " ", "C", "o", "s", "t">>],
                    [amount |-> what_i_paid,
                     payee_name |-> combine_names(expense.users),
                     memo |-> 
                         <<"W", "h", "a", "t", " ", "o", "t", "h", "e", "r", "s",
                           " ", "o", "w", "e", ".">>]>>,
         import_id |-> create_import_id(amount, DateOf(expense.date)),
         frequency |-> "None"]

\* BuildTransaction with the whole cost as the amount of a transaction that
\* has sub-lines
BuildTransactionOfTotalCost(expense) ==
    LET total_cost == 0 - Milliunits(expense.cost)
        what_i_paid == 0 - (Milliunits(expense.cost) - Milliunits(expense.owed))
        what_i_am_owed == Milliunits(expense.owed)
        payee == IF Len(expense.group_name) > 0 THEN expense.group_name
                 ELSE SplitwiseText
        amount == IF expense.current_user_paid THEN what_i_am_owed
                  ELSE total_cost
        memo == IF expense.current_user_paid THEN expense.description
                ELSE Strip(expense.description) \o <<" ", "w", "i", "t", "h", " ">>
                         \o combine_names(expense.users)
    IN  [id |-> None,
         account_id |-> "ynab_account_id",
         date |-> expense.date,
         amount |-> amount,
         payee_name |-> payee,
         memo |-> IF Len(expense.swid) > 0 THEN memo \o <<" ">> \o expense.swid
                  ELSE memo,
         cleared |-> "cleared",
         subtransactions |->
             IF expense.current_user_paid THEN <<>>
             ELSE <<[amount |-> total_cost,
                     payee_name |-> expense.description,
                     memo |-> <<"T", "o", "t", "a", "l", " ", "C", "o", "s", "t">>],
                    [amount |-> what_i_am_owed,
                     payee_name |-> combine_names(expense.users),
                     memo |-> 
                         <<"W", "h", "a", "t", " ", "o", "t", "h", "e", "r", "s",
                           " ", "o", "w", "e", ".">>]>>,
         import_id |-> create_import_id(amount, DateOf(expense.date)),
         frequency |-> "None"]

\* main.py:235-294: the transaction built for an expense
BuildTransaction(expense) ==
    LET total_cost == 0 - Milliunits(expense.cost)
        what_i_paid == 0 - (Milliunits(expense.cost) - Milliunits(expense.owed))
        what_i_am_owed == Milliunits(expense.owed)
        payee == IF Len(expense.group_name) > 0 THEN expense.group_name
                 ELSE SplitwiseText
        amount == IF expense.current_user_paid THEN what_i_am_owed
                  ELSE what_i_paid
        memo == IF expense.current_user_paid THEN expense.description
                ELSE Strip(expense.description) \o <<" ", "w", "i", "t", "h", " ">>
                         \o combine_names(expense.users)
    IN  [id |-> None,
         account_id |-> "ynab_account_id",
         date |-> expense.date,
         amount |-> amount,
         payee_name |-> payee,
         memo |-> IF Len(expense.swid) > 0 THEN memo \o <<" ">> \o expense.swid
                  ELSE memo,
         cleared |-> "cleared",
         subtransactions |->
             IF expense.current_user_paid THEN <<>>
             ELSE <<[amount |-> total_cost,
                     payee_name |-> expense.description,
                     memo |-> <<"T", "o", "t", "a", "l", " ", "C", "o", "s", "t">>],
                    [amount |-> what_i_am_owed,
                     payee_name |-> combine_names(expense.users),
                     memo |-> 
                         <<"W", "h", "a", "t", " ", "o", "t", "h", "e", "r", "s",
                           " ", "o", "w", "e", ".">>]>>,
         import_id |-> create_import_id(amount, DateOf(expense.date)),
         frequency |-> "None"]

\* a call of a writing method of YNABClient, as the pass issued it
Call(op, transaction_id, transactions) ==
    [op |-> op, transaction_id |-> transaction_id, transactions |-> transactions]

TransactionIds(S) == {t.id : t \in S}

\* main.py:199-219: a round of the loop over valid_expenses for an expense
\* with deleted_time set. st holds the locals of sw_to_ynab, the calls issued
\* so far and the ledger; fail_at is the number of the call that the network
\* fails (0: none). A DELETE of an id that is no regular transaction is
\* answered with an HTTP error, which _make_request raises (ynab.py:22); the
\* exception leaves sw_to_ynab. A transaction that this pass built and did
\* not route to the updates has no key "id" (id = None): reading it raises
\* KeyError before any request.
DeletedExpense(expense, st, fail_at) ==
    LET expense_swid == extract_swid_from_memo(expense.swid).id
        ynab_transaction == st.swid_to_transaction_mapping[expense_swid]
        raises == \/ Len(st.calls) + 1 = fail_at
                  \/ ynab_transaction.id \notin TransactionIds(st.transactions)
    IN  IF /\ expense_swid \in DOMAIN st.swid_to_transaction_mapping
           /\ expense_swid = extract_swid_from_memo(ynab_transaction.memo).id
           /\ ynab_transaction.id = None
        THEN [st EXCEPT !.processed = @ + 1, !.raised = TRUE]
        ELSE IF /\ expense_swid \in DOMAIN st.swid_to_transaction_mapping
                /\ expense_swid = extract_swid_from_memo(ynab_transaction.memo).id
        THEN [st EXCEPT
                 !.processed = @ + 1,
                 !.calls = Append(@, Call("delete_transaction",
                                          ynab_transaction.id, <<>>)),
                 !.raised = raises,
                 !.failed_call = IF raises THEN Len(st.calls) + 1 ELSE @,
                 !.transactions =
                     IF raises THEN @
                     ELSE {t \in @ : t.id # ynab_transaction.id}]
        ELSE [st EXCEPT !.processed = @ + 1]

\* main.py:296-311: the transaction routed to the batch of its kind and
\* registered in the map
Routed(expense, st, transaction_id_to_update, transaction) ==
    [st EXCEPT
        !.processed = @ + 1,
        !.scheduled_transactions =
            IF expense.date > st.now THEN Append(@, transaction)
            ELSE @,
        !.updated_transactions =
            IF expense.date <= st.now /\ transaction_id_to_update # None
            THEN Append(@, transaction) ELSE @,
        !.ynab_transactions =
            IF expense.date <= st.now /\ transaction_id_to_update = None
            THEN Append(@, transaction) ELSE @,
        !.swid_to_transaction_mapping =
            _add_transaction_to_swid_map(@, transaction)]

\* main.py:296-308: what the routing does to the transaction built
Marked(expense, st, transaction_id_to_update, built) ==
    IF expense.date > st.now
    THEN [built EXCEPT !.cleared = "uncleared"]
    ELSE IF transaction_id_to_update # None
    THEN [built EXCEPT !.id = transaction_id_to_update]
    ELSE built

\* main.py:220-311: a round of the loop for an expense that is not deleted.
\* The transaction found in the map can be one this pass built, with no key
\* "id" (id = None): ynab_transaction["id"] of main.py:234 raises KeyError.
MirroredExpense(expense, st) ==
    LET expense_swid == extract_swid_from_memo(expense.swid).id
        present == /\ Len(expense.swid) > 0
                   /\ expense_swid \in DOMAIN st.swid_to_transaction_mapping
        ynab_transaction == st.swid_to_transaction_mapping[expense_swid]
        transaction_id_to_update == IF present THEN ynab_transaction.id ELSE None
    IN  IF present /\ ~check_if_needs_to_update(expense, ynab_transaction)
        THEN [st EXCEPT !.processed = @ + 1]
        ELSE IF present /\ ynab_transaction.id = None
        THEN [st EXCEPT !.processed = @ + 1, !.raised = TRUE]
        ELSE Routed(expense, st, transaction_id_to_update,
                    Marked(expense, st, transaction_id_to_update,
                           BuildTransaction(expense)))

ResolveExpense(expense, st, fail_at) ==
    IF expense.deleted_time THEN DeletedExpense(expense, st, fail_at)
    ELSE MirroredExpense(expense, st)

RECURSIVE ResolveFrom(_, _, _, _)
ResolveFrom(valid_expenses, i, st, fail_at) ==
    IF i > Len(valid_expenses) \/ st.raised THEN st
    ELSE ResolveFrom(valid_expenses, i + 1,
                     ResolveExpense(valid_expenses[i], st, fail_at), fail_at)

\* the smallest id that no transaction of the ledger S carries
FreshId(S) == CHOOSE n \in 1..(Cardinality(S) + 1) :
                  /\ n \notin TransactionIds(S)
                  /\ \A m \in 1..(n - 1) : m \in TransactionIds(S)

\* the ledger S with the transactions of a create call stored, each under a
\* new id and with the calendar day of its date
RECURSIVE Stored(_, _, _)
Stored(S, others, payloads) ==
    IF Len(payloads) = 0 THEN S
    ELSE Stored(S \cup {[payloads[1] EXCEPT !.id = FreshId(S \cup others),
                                            !.date = DateOf(payloads[1].date)]},
                others, Tail(payloads))

\* the ledger S with the transactions of an update call replaced
RECURSIVE Updated(_, _)
Updated(S, payloads) ==
    IF Len(payloads) = 0 THEN S
    ELSE Updated({t \in S : t.id # payloads[1].id}
                     \cup {[payloads[1] EXCEPT !.date = DateOf(payloads[1].date)]},
                 Tail(payloads))

\* main.py:330-336: the scheduled transactions one call at a time, up to
\* the first that raises. The dict is changed in place before the request:
\* where the list scheduled_transactions and the map hold the same dict, the
\* map has the change too. Of the dicts of the list that are equal in every
\* key (and so registered under one id) the map holds the one registered
\* last, which is the last of them in the list.
RECURSIVE SubmitScheduled(_, _, _)
SubmitScheduled(st, i, fail_at) ==
    IF i > Len(st.scheduled_transactions) \/ st.ret = 1 THEN st
    ELSE LET built == st.scheduled_transactions[i]
             scheduled_transaction ==
                 [built EXCEPT !.cleared = "None", !.frequency = "never"]
             raises == Len(st.calls) + 1 = fail_at
             registered_last ==
                 \A j \in (i + 1)..Len(st.scheduled_transactions) :
                     st.scheduled_transactions[j] # built
         IN  SubmitScheduled(
                 [st EXCEPT
                     !.scheduled_transactions =
                         [@ EXCEPT ![i] = scheduled_transaction],
                     !.swid_to_transaction_mapping =
                         [k \in DOMAIN st.swid_to_transaction_mapping |->
                             IF /\ st.swid_to_transaction_mapping[k] = built
                                /\ registered_last
                             THEN scheduled_transaction
                             ELSE st.swid_to_transaction_mapping[k]],
                     !.calls = Append(@, Call("create_scheduled_transaction",
                                              None, <<scheduled_transaction>>)),
                     !.ret = IF raises THEN 1 ELSE 0,
                     !.failed_call = IF raises THEN Len(st.calls) + 1 ELSE @,
                     !.scheduled =
                         IF raises THEN @
                         ELSE Stored(@, st.transactions, <<scheduled_transaction>>)],
                 i + 1, fail_at)

\* main.py:324-326: the bulk create, if there is anything to create
SubmitCreate(st, fail_at) ==
    LET raises == Len(st.calls) + 1 = fail_at
    IN  IF Len(st.ynab_transactions) = 0 THEN st
        ELSE [st EXCEPT
                 !.calls = Append(@, Call("create_transaction", None,
                                          st.ynab_transactions)),
                 !.ret = IF raises THEN 1 ELSE 0,
                 !.failed_call = IF raises THEN Len(st.calls) + 1 ELSE @,
                 !.transactions =
                     IF raises THEN @
                     ELSE Stored(@, st.scheduled, st.ynab_transactions)]

\* SubmitUpdate without the try around the submissions: the update is sent
\* although the bulk create before it raised
SubmitUpdateAfterFailure(st, fail_at) ==
    LET raises ==
            \/ Len(st.calls) + 1 = fail_at
            \/ \E j \in 1..Len(st.updated_transactions) :
                   st.updated_transactions[j].id
                       \notin TransactionIds(st.transactions)
    IN  IF Len(st.updated_transactions) = 0 THEN st
        ELSE [st EXCEPT
                 !.calls = Append(@, Call("update_transactions", None,
                                          st.updated_transactions)),
                 !.ret = IF raises THEN 1 ELSE @,
                 !.failed_call = IF raises THEN Len(st.calls) + 1 ELSE @,
                 !.transactions =
                     IF raises THEN @
                     ELSE Updated(@, st.updated_transactions)]

\* main.py:327-329: the bulk update, if there is anything to update (an
\* update of an id that is no regular transaction is answered with an error)
SubmitUpdate(st, fail_at) ==
    LET raises ==
            \/ Len(st.calls) + 1 = fail_at
            \/ \E j \in 1..Len(st.updated_transactions) :
                   st.updated_transactions[j].id
                       \notin TransactionIds(st.transactions)
    IN  IF st.ret = 1 \/ Len(st.updated_transactions) = 0 THEN st
        ELSE [st EXCEPT
                 !.calls = Append(@, Call("update_transactions", None,
                                          st.updated_transactions)),
                 !.ret = IF raises THEN 1 ELSE 0,
                 !.failed_call = IF raises THEN Len(st.calls) + 1 ELSE @,
                 !.transactions =
                     IF raises THEN @
                     ELSE Updated(@, st.updated_transactions)]

\* Submit with the scheduled transactions created before the two bulk calls
SubmitScheduledFirst(st, fail_at) ==
    SubmitUpdate(SubmitCreate(SubmitScheduled(st, 1, fail_at), fail_at), fail_at)

\* main.py:312-345: the batches submitted, and the value returned
Submit(st, fail_at) ==
    SubmitScheduled(SubmitUpdate(SubmitCreate(st, fail_at), fail_at), 1, fail_at)

\* the locals of a pass that has not run (failed_call: the number, among the
\* calls of the pass, of the write call that raised; 0 when none did)
NoPass ==
    [ran |-> FALSE, expenses |-> <<>>, valid_expenses |-> <<>>,
     dedup_index |-> <<>>, swid_to_transaction_mapping |-> <<>>,
     ynab_transactions |-> <<>>, scheduled_transactions |-> <<>>,
     updated_transactions |-> <<>>, calls |-> <<>>, processed |-> 0,
     raised |-> FALSE, ret |-> 0, failed_call |-> 0, now |-> 0,
     transactions |-> {}, scheduled |-> {}]

\* main.py:312-345: the end of a pass whose loop left st
Submitted(st, fail_at) ==
    IF st.raised THEN st
    ELSE IF Len(st.ynab_transactions) = 0
            /\ Len(st.scheduled_transactions) = 0
            /\ Len(st.updated_transactions) = 0
    THEN st
    ELSE Submit(st, fail_at)

\* main.py:140-345: the pass once valid_expenses is known
Resolved(expenses, valid_expenses, transactions, scheduled, mapping, clock, fail_at) ==
    LET start == [NoPass EXCEPT !.ran = TRUE, !.expenses = expenses,
                                !.now = clock,
                                !.transactions = transactions,
                                !.scheduled = scheduled]
    IN  IF Len(expenses) = 0 THEN start
        ELSE IF Len(valid_expenses) = 0 THEN start
        ELSE Submitted(
                 ResolveFrom(valid_expenses, 1,
                     [start EXCEPT !.valid_expenses = valid_expenses,
                                   !.dedup_index = mapping,
                                   !.swid_to_transaction_mapping = mapping],
                     fail_at),
                 fail_at)

\* main.py:129-345: sw_to_ynab on the list get_expenses returned, the ledger
\* (transactions, scheduled), the map the ledger reads gave and the clock.
\* The result holds the locals at the end of the pass, the calls issued, the
\* value returned (ret; raised when an exception left the method) and the
\* ledger after the pass. dedup_index is the map as first built.
sw_to_ynab(expenses, transactions, scheduled, mapping, clock, fail_at) ==
    Resolved(expenses, LatestExpenses(expenses), transactions, scheduled,
             mapping, clock, fail_at)

\* the maps the ledger reads of a pass over these expenses can give (the
\* ledger is not read when no expense is valid)
MapsFor(valid_expenses, transactions, scheduled) ==
    IF Len(valid_expenses) = 0 THEN {<<>>}
    ELSE ynab_swid_to_transaction_mapping(
             transactions, scheduled, EarliestDate(valid_expenses))

DedupIndexes(expenses, transactions, scheduled) ==
    MapsFor(LatestExpenses(expenses), transactions, scheduled)

(***************************************************************************)
(* Text: str.lower, in, str.split, str.join and str.replace.               *)
(***************************************************************************)
\* the characters of the alphabet that str.lower() changes, and what it
\* gives for each
UpperChars ==
    <<"A", "B", "C", "D", "E", "F", "G", "H", "I", "J", "K", "L", "M", "N",
      "O", "P", "Q", "R", "S", "T", "U", "V", "W", "X", "Y", "Z", "U+00C0",
      "U+00C1", "U+00C2", "U+00C3", "U+00C4", "U+00C5", "U+00C6", "U+00C7",
      "U+00C8", "U+00C9", "U+00CA", "U+00CB", "U+00CC", "U+00CD", "U+00CE",
      "U+00CF", "U+00D0", "U+00D1", "U+00D2", "U+00D3", "U+00D4", "U+00D5",
      "U+00D6", "U+00D8", "U+00D9", "U+00DA", "U+00DB", "U+00DC", "U+00DD",
      "U+00DE">>

LowerChars ==
    <<"a", "b", "c", "d", "e", "f", "g", "h", "i", "j", "k", "l", "m", "n",
      "o", "p", "q", "r", "s", "t", "u", "v", "w", "x", "y", "z", "U+00E0",
      "U+00E1", "U+00E2", "U+00E3", "U+00E4", "U+00E5", "U+00E6", "U+00E7",
      "U+00E8", "U+00E9", "U+00EA", "U+00EB", "U+00EC", "U+00ED", "U+00EE",
      "U+00EF", "U+00F0", "U+00F1", "U+00F2", "U+00F3", "U+00F4", "U+00F5",
      "U+00F6", "U+00F8", "U+00F9", "U+00FA", "U+00FB", "U+00FC", "U+00FD",
      "U+00FE">>

LowerChar(c) ==
    IF \E i \in 1..Len(UpperChars) : UpperChars[i] = c
    THEN LowerChars[CHOOSE i \in 1..Len(UpperChars) : UpperChars[i] = c]
    ELSE c

\* s.lower()
Lower(s) == [i \in 1..Len(s) |-> LowerChar(s[i])]

StartsAt(s, i, sub) ==
    /\ i + Len(sub) - 1 <= Len(s)
    /\ SubSeq(s, i, i + Len(sub) - 1) = sub

\* sub in s
Contains(s, sub) == \E i \in 1..(Len(s) + 1) : StartsAt(s, i, sub)

\* s.split(sep) of a separator that is not empty
RECURSIVE Split(_, _)
Split(s, sep) ==
    IF ~Contains(s, sep) THEN <<s>>
    ELSE LET i == CHOOSE i \in 1..Len(s) :
                      /\ StartsAt(s, i, sep)
                      /\ \A j \in 1..(i - 1) : ~StartsAt(s, j, sep)
         IN  <<SubSeq(s, 1, i - 1)>>
                 \o Split(SubSeq(s, i + Len(sep), Len(s)), sep)

\* sep.join(parts)
RECURSIVE Join(_, _)
Join(parts, sep) ==
    IF Len(parts) = 0 THEN <<>>
    ELSE IF Len(parts) = 1 THEN parts[1]
    ELSE parts[1] \o sep \o Join(Tail(parts), sep)

\* s.replace(old, new) of an old that is not empty
Replace(s, old, new) == Join(Split(s, old), new)

(***************************************************************************)
(* float: the binary64 numbers of Python, computed exactly.                *)
(*                                                                         *)
(* A natural number of any size is the sequence of its digits in base      *)
(* 8192 = 2^13, the lowest first and the highest not 0 (0 is <<>>). A      *)
(* float is [neg, man, exp]: the number man * 2^exp, negative when neg,    *)
(* with man odd and of at most 53 bits (0.0 and -0.0: man = <<>>, exp =    *)
(* 0). Every operation gives the float nearest to the exact result, a tie  *)
(* going to the one whose man is even before it is made odd. The numbers   *)
(* of the model are far from the largest and the smallest float.           *)
(***************************************************************************)
RECURSIVE Limbs(_)
Limbs(n) == IF n = 0 THEN <<>> ELSE <<n % 8192>> \o Limbs(n \div 8192)

RECURSIVE ToInt(_)
ToInt(a) == IF Len(a) = 0 THEN 0 ELSE a[1] + 8192 * ToInt(Tail(a))

RECURSIVE Trim(_)
Trim(a) ==
    IF Len(a) = 0 \/ a[Len(a)] # 0 THEN a
    ELSE Trim(SubSeq(a, 1, Len(a) - 1))

LimbAt(a, i) == IF i <= Len(a) THEN a[i] ELSE 0

RECURSIVE Pow2(_)
Pow2(k) == IF k = 0 THEN 1 ELSE 2 * Pow2(k - 1)

\* the number of bits of an int n >= 0, and of a natural a
RECURSIVE SmallLen(_)
SmallLen(n) == IF n = 0 THEN 0 ELSE 1 + SmallLen(n \div 2)

BitLen(a) ==
    IF Len(a) = 0 THEN 0 ELSE 13 * (Len(a) - 1) + SmallLen(a[Len(a)])

RECURSIVE AddFrom(_, _, _, _)
AddFrom(a, b, i, carry) ==
    IF i > Len(a) /\ i > Len(b) THEN Limbs(carry)
    ELSE <<(LimbAt(a, i) + LimbAt(b, i) + carry) % 8192>>
             \o AddFrom(a, b, i + 1,
                        (LimbAt(a, i) + LimbAt(b, i) + carry) \div 8192)

\* a + b
BAdd(a, b) == AddFrom(a, b, 1, 0)

RECURSIVE SubFrom(_, _, _, _)
SubFrom(a, b, i, borrow) ==
    IF i > Len(a) THEN <<>>
    ELSE <<(8192 + a[i] - LimbAt(b, i) - borrow) % 8192>>
             \o SubFrom(a, b, i + 1,
                        IF a[i] - LimbAt(b, i) - borrow < 0 THEN 1 ELSE 0)

\* a - b for a >= b
BSub(a, b) == Trim(SubFrom(a, b, 1, 0))

\* a < b
BLess(a, b) ==
    \/ Len(a) < Len(b)
    \/ /\ Len(a) = Len(b)
       /\ \E i \in 1..Len(a) :
              /\ a[i] < b[i]
              /\ \A j \in (i + 1)..Len(a) : a[j] = b[j]

\* a * c for an int c, 0 < c < 2^17, from digit i on with carry
RECURSIVE MulFrom(_, _, _, _)
MulFrom(a, c, i, carry) ==
    IF i > Len(a) THEN Limbs(carry)
    ELSE <<(a[i] * c + carry) % 8192>>
             \o MulFrom(a, c, i + 1, (a[i] * c + carry) \div 8192)

\* <<a % d>> \o the digits of a \div d (not trimmed) for an int d, 0 < d <
\* 2^17: the long division of the digits i, i - 1, .. 1 of a with r carried
RECURSIVE DivFrom(_, _, _, _)
DivFrom(a, d, i, r) ==
    IF i = 0 THEN <<r>>
    ELSE Append(DivFrom(a, d, i - 1, (r * 8192 + a[i]) % d),
                (r * 8192 + a[i]) \div d)

\* a * 2^k
ShlBits(a, k) ==
    IF Len(a) = 0 THEN a
    ELSE [i \in 1..(k \div 13) |-> 0] \o Trim(MulFrom(a, Pow2(k % 13), 1, 0))

\* <<s>> \o (a \div 2^k), s = 1 when 2^k does not divide a, else 0
ShrBits(a, k) ==
    LET rest == IF k \div 13 >= Len(a) THEN <<>>
                ELSE SubSeq(a, (k \div 13) + 1, Len(a))
        divided == DivFrom(rest, Pow2(k % 13), Len(rest), 0)
        lost == \/ divided[1] # 0
                \/ \E i \in 1..Len(a) : i <= k \div 13 /\ a[i] # 0
    IN  <<IF lost THEN 1 ELSE 0>> \o Trim(Tail(divided))

\* the number of zero bits below the lowest 1 of an int n > 0, and of a
\* natural a > 0
RECURSIVE SmallLowZeros(_)
SmallLowZeros(n) == IF n % 2 = 1 THEN 0 ELSE 1 + SmallLowZeros(n \div 2)

RECURSIVE LowZeros(_)
LowZeros(a) ==
    IF a[1] = 0 THEN 13 + LowZeros(Tail(a)) ELSE SmallLowZeros(a[1])

\* the number man * 2^exp with man made odd
Normalize(neg, man, exp) ==
    IF Len(man) = 0 THEN [neg |-> neg, man |-> <<>>, exp |-> 0]
    ELSE [neg |-> neg,
          man |-> Tail(ShrBits(man, LowZeros(man))),
          exp |-> exp + LowZeros(man)]

\* the natural nearest to man / 2^drop for drop > 0 (a tie to the even
\* one), of shifted = ShrBits(man, drop - 1); sticky: the number is a little
\* more than man / 2^drop
Halved(shifted, sticky) ==
    LET guard == LimbAt(shifted, 2) % 2
        kept == Trim(Tail(DivFrom(Tail(shifted), 2, Len(shifted) - 1, 0)))
        up == guard = 1 /\ (sticky \/ shifted[1] = 1 \/ LimbAt(kept, 1) % 2 = 1)
    IN  IF up THEN BAdd(kept, <<1>>) ELSE kept

HalfEven(man, drop, sticky) == Halved(ShrBits(man, drop - 1), sticky)

\* the float nearest to man * 2^exp (or to a little more, when sticky)
Round53(neg, man, exp, sticky) ==
    IF BitLen(man) <= 53 THEN Normalize(neg, man, exp)
    ELSE Normalize(neg, HalfEven(man, BitLen(man) - 53, sticky),
                   exp + BitLen(man) - 53)

\* float(n) of an int
FromInt(n) == Normalize(n < 0, Limbs(IF n < 0 THEN 0 - n ELSE n), 0)

\* -x
FNeg(x) == [x EXCEPT !.neg = ~@]

\* what DivFrom gave for man * 2^72 divided by d, as a float
Quotient(neg, divided, exp) ==
    Round53(neg, Trim(Tail(divided)), exp - 72, divided[1] # 0)

\* x / d for an int d, 0 < d < 2^17 (man * 2^72 / d has more than 53 bits)
FDivInt(x, d) ==
    IF Len(x.man) = 0 THEN x
    ELSE Quotient(x.neg,
                  DivFrom(ShlBits(x.man, 72), d, Len(ShlBits(x.man, 72)), 0),
                  x.exp)

\* x * c for an int c, 0 < c < 2^17
FMulInt(x, c) == Round53(x.neg, Trim(MulFrom(x.man, c, 1, 0)), x.exp, FALSE)

\* the sum of the numbers a * 2^exp (negative when aneg) and b * 2^exp,
\* exactly (man of any size)
SignedSum(aneg, a, bneg, b, exp) ==
    IF aneg = bneg THEN Normalize(aneg, BAdd(a, b), exp)
    ELSE IF a = b THEN Normalize(FALSE, <<>>, 0)
    ELSE IF BLess(a, b) THEN Normalize(bneg, BSub(b, a), exp)
    ELSE Normalize(aneg, BSub(a, b), exp)

\* the sum of two numbers, exactly (a sum of zeros is -0.0 only when both
\* are)
ExactSum(x, y) ==
    IF Len(x.man) = 0 /\ Len(y.man) = 0
    THEN Normalize(x.neg /\ y.neg, <<>>, 0)
    ELSE IF Len(y.man) = 0 THEN x
    ELSE IF Len(x.man) = 0 THEN y
    ELSE IF x.exp <= y.exp
    THEN SignedSum(x.neg, x.man, y.neg, ShlBits(y.man, y.exp - x.exp), x.exp)
    ELSE SignedSum(x.neg, ShlBits(x.man, x.exp - y.exp), y.neg, y.man, y.exp)

\* the float nearest to a number
Rounded(sum) == Round53(sum.neg, sum.man, sum.exp, FALSE)

\* x + y
FAdd(x, y) == Rounded(ExactSum(x, y))

\* x - y
FSub(x, y) == FAdd(x, FNeg(y))

\* the integer nearest to |x| * c for an int c, 0 < c < 2^17, a tie to the
\* even one
Nearest(x, c) ==
    IF x.exp >= 0 THEN ToInt(ShlBits(Trim(MulFrom(x.man, c, 1, 0)), x.exp))
    ELSE ToInt(HalfEven(Trim(MulFrom(x.man, c, 1, 0)), 0 - x.exp, FALSE))

\* round(x): an int
FRoundInt(x) == IF x.neg THEN 0 - Nearest(x, 1) ELSE Nearest(x, 1)

\* round(x, 2): the float nearest to the decimal with two places that is
\* nearest to x
FRound2(x) ==
    IF x.neg THEN FNeg(FDivInt(FromInt(Nearest(x, 100)), 100))
    ELSE FDivInt(FromInt(Nearest(x, 100)), 100)

(***************************************************************************)
(* main.py: the reverse pass ynab_to_sw.                                   *)
(*                                                                         *)
(* The budget has one account, that of the ledger. The amounts handed to   *)
(* Splitwise are floats, those of the ledger are ints (milliunits).        *)
(***************************************************************************)
\* self.ynab_start_date: timedelta(days=90) before today
StartDays == 90

\* ynab_to_sw.extract_names
extract_names(s) ==
    Split(Replace(Replace(s, <<" ", "a", "n", "d", " ">>, <<",">>), <<" ">>, <<>>), <<",">>)

\* main.py:437-441: the test of the memo
Selected(transaction) ==
    /\ Len(transaction.memo) > 0
    /\ Contains(Lower(transaction.memo), <<"s", "p", "l", "i", "t", "w", "i", "s", "e">>)
    /\ ~Contains(Lower(transaction.memo), 
                     <<"a", "d", "d", "e", "d", " ", "t", "o", " ", "s", "p", "l", "i", "t", "w", "i", "s", "e">>)

\* main.py:446-450
TransactionFriends(transaction) ==
    extract_names(Strip(Join(Tail(Split(transaction.memo, <<" ", "w", "i", "t", "h", " ">>)), <<" ">>)))

\* the ids of the friends whose name holds the name given, in list order
FriendIds(friend, sw_friends) ==
    LET Holds(f) == Contains(Lower(f.name), Lower(friend))
        held == SelectSeq(sw_friends, Holds)
    IN  [j \in 1..Len(held) |-> held[j].id]

\* main.py:382-385: expense_friends_ids
RECURSIVE ExpenseFriendsIds(_, _)
ExpenseFriendsIds(transaction_friends, sw_friends) ==
    IF Len(transaction_friends) = 0 THEN <<>>
    ELSE FriendIds(transaction_friends[1], sw_friends)
             \o ExpenseFriendsIds(Tail(transaction_friends), sw_friends)

\* main.py:403-416: the entries of the friends (paid is the int 0);
\* total_friends_share is the sum so far, the int 0 at first being 0.0 in
\* a sum with a float
RECURSIVE FriendEntries(_, _, _, _, _)
FriendEntries(expense_friends_ids, i, total_amount, current_user_owed, total_friends_share) ==
    IF i > Len(expense_friends_ids) THEN <<>>
    ELSE LET friends_share ==
                 IF i = Len(expense_friends_ids)
                 THEN FSub(FSub(total_amount, total_friends_share),
                           current_user_owed)
                 ELSE FRound2(FDivInt(FSub(total_amount, current_user_owed),
                                      Len(expense_friends_ids)))
         IN  <<[id |-> expense_friends_ids[i], owed |-> friends_share,
                paid |-> 0]>>
                 \o FriendEntries(expense_friends_ids, i + 1, total_amount,
                                  current_user_owed,
                                  FAdd(total_friends_share, friends_share))

\* ynab_to_sw.update_splitwise: the expense handed to create_expense
update_splitwise(transaction, transaction_friends, sw_friends, current_user_id, end_date) ==
    LET amount == transaction.amount
        category1_amount ==
            FMulInt(FDivInt(FromInt(amount), Len(transaction_friends) + 1), 100)
        total_amount == FDivInt(FromInt(0 - amount), 1000)
        current_user_owed == FNeg(FRound2(FDivInt(category1_amount, 100000)))
        expense_friends_ids == ExpenseFriendsIds(transaction_friends, sw_friends)
    IN  [cost |-> total_amount,
         date |-> end_date,
         description |-> transaction.payee_name,
         users |-> <<[id |-> current_user_id, owed |-> current_user_owed,
                      paid |-> total_amount]>>
                   \o FriendEntries(expense_friends_ids, 1, total_amount,
                                    current_user_owed, FromInt(0))]

\* ynab_to_sw.update_ynab: the transaction sent to update_transaction (a
\* transaction that was created without a category has category_id null)
update_ynab(transaction, friends, category2_id) ==
    LET amount == transaction.amount
        category1_amount ==
            FMulInt(FDivInt(FromInt(amount), Len(friends) + 1), 100)
        category2_amount == FSub(FromInt(amount * 100), category1_amount)
    IN  [transaction EXCEPT
            !.subtransactions =
                <<[amount |-> FRoundInt(FDivInt(category1_amount, 100)),
                   category_id |-> IF "category_id" \in DOMAIN transaction
                                   THEN transaction.category_id ELSE "None"],
                  [amount |-> FRoundInt(FDivInt(category2_amount, 100)),
                   category_id |-> category2_id]>>,
            !.memo = <<"A", "d", "d", "e", "d", " ", "t", "o", " ">> \o @]

\* the locals of a reverse pass that has not run (failed: a write call of
\* the pass did not do its write)
NoReverse ==
    [ran |-> FALSE, calls |-> <<>>, raised |-> FALSE, failed |-> FALSE,
     transactions |-> {}]

\* the outcomes of the write calls of a reverse pass: the create_expense
\* numbered at fails as how says ("errors": it returns errors; "no_expense":
\* it returns neither expense nor errors; "raises": it raises;
\* "update_raises": it succeeds and the update_transaction after it raises)
ReverseFailures ==
    {[at |-> 0, how |-> "ok"]}
        \cup [at : {1}, how : {"errors", "no_expense", "raises", "update_raises"}]

\* what create_expense gave, of an outcome of the two calls
CreateResult(how) == IF how = "update_raises" THEN "ok" ELSE how

\* Mirrored without the test of what create_expense returned: the ledger
\* transaction is updated unless create_expense raised
MirroredUnchecked(transaction, st, how, created, updated) ==
    IF how = "raises"
    THEN [st EXCEPT !.calls = created, !.raised = TRUE, !.failed = TRUE]
    ELSE [st EXCEPT
             !.calls = Append(created,
                 [op |-> "update_transaction",
                  transaction_id |-> transaction.id,
                  payload |-> updated,
                  result |-> IF how = "update_raises" THEN "raises" ELSE "ok"]),
             !.raised = (how = "update_raises"),
             !.failed = (@ \/ how # "ok"),
             !.transactions =
                 IF how = "update_raises" THEN @
                 ELSE (@ \ {transaction}) \cup {updated}]

\* main.py:452-460: create_expense on the expense built and, when it gave an
\* expense and no errors, update_ynab. how: the outcome of create_expense;
\* created: the calls with this create_expense. A call is logged with what
\* it gave (result).
Mirrored(transaction, st, how, created, updated) ==
    IF how = "raises"
    THEN [st EXCEPT !.calls = created, !.raised = TRUE, !.failed = TRUE]
    ELSE IF how \in {"errors", "no_expense"}
    THEN [st EXCEPT !.calls = created, !.failed = TRUE]
    ELSE [st EXCEPT
             !.calls = Append(created,
                 [op |-> "update_transaction",
                  transaction_id |-> transaction.id,
                  payload |-> updated,
                  result |-> IF how = "update_raises" THEN "raises" ELSE "ok"]),
             !.raised = (how = "update_raises"),
             !.failed = (@ \/ how = "update_raises"),
             !.transactions =
                 IF how = "update_raises" THEN @
                 ELSE (@ \ {transaction}) \cup {updated}]

\* sw.py:238-257: the expenses Splitwise gained by the calls of a reverse
\* pass, each as create_expense built it of the expense handed to it
Created(calls) ==
    LET Gave(call) == call.op = "create_expense" /\ call.result = "ok"
        gave == SelectSeq(calls, Gave)
    IN  [i \in 1..Len(gave) |-> gave[i].payload]

\* the outcome of the create_expense that follows the calls of st
OutcomeAt(st, fail) ==
    IF fail.at = 1 + Cardinality({c \in 1..Len(st.calls) :
                                     st.calls[c].op = "create_expense"})
    THEN fail.how ELSE "ok"

\* main.py:443-460: a selected transaction, its friends extracted.
\* world: [sw_friends, current_user_id, category2_id]
SplitWith(transaction, transaction_friends, st, world, end_date, fail) ==
    Mirrored(transaction, st, OutcomeAt(st, fail),
             Append(st.calls,
                 [op |-> "create_expense",
                  transaction_id |-> transaction.id,
                  payload |-> update_splitwise(transaction, transaction_friends,
                                  world.sw_friends, world.current_user_id,
                                  end_date),
                  result |-> CreateResult(OutcomeAt(st, fail))]),
             update_ynab(transaction, transaction_friends, world.category2_id))

\* main.py:435-460: a round of the loop over the transactions
ReverseStep(transaction, st, world, end_date, fail) ==
    IF ~Selected(transaction) THEN st
    ELSE SplitWith(transaction, TransactionFriends(transaction), st, world,
                end_date, fail)

\* main.py:425-460: the loop over the transactions YNAB returned (response)
RECURSIVE ReverseFrom(_, _, _, _, _, _)
ReverseFrom(response, i, st, world, end_date, fail) ==
    IF i > Len(response) \/ st.raised THEN st
    ELSE ReverseFrom(response, i + 1,
                     ReverseStep(response[i], st, world, end_date, fail),
                     world, end_date, fail)

\* the lists get_transactions can return for the ledger: the transactions
\* dated ynab_start_date or later, in an order the code does not control
Responses(transactions, clock) ==
    LET window == {t \in transactions : t.date >= DateOf(clock) - StartDays}
    IN  {r \in [1..Cardinality(window) -> window] :
            \A i, j \in 1..Cardinality(window) : i # j => r[i] # r[j]}

\* main.py:347-460: ynab_to_sw on the list get_transactions returned
ynab_to_sw(response, transactions, world, clock, fail) ==
    ReverseFrom(response, 1,
                [NoReverse EXCEPT !.ran = TRUE, !.transactions = transactions],
                world, DateOf(clock) + 1, fail)

(***************************************************************************)
(* main.py: run_for_secrets_dict and the loop of __main__.                 *)
(*                                                                         *)
(* A dict of secrets is a function from keys (text) to values; os.environ  *)
(* is one too. An uncaught exception ends the process with exit code 1.    *)
(***************************************************************************)
UserNameKey == <<"u", "s", "e", "r", "_", "n", "a", "m", "e">>

AccountNameKey == 
    <<"y", "n", "a", "b", "_", "a", "c", "c", "o", "u", "n", "t", "_", "n", "a", "m", "e">>

SyncYnabToSwKey == 
    <<"s", "y", "n", "c", "_", "y", "n", "a", "b", "_", "t", "o", "_", "s", "w">>

GithubActionsKey ==
    <<"G", "I", "T", "H", "U", "B", "_", "A", "C", "T", "I", "O", "N", "S">>

\* the keys run_for_secrets_dict asserts on secrets_dict, in order
SecretKeys ==
    <<<<"s", "w", "_", "c", "o", "n", "s", "u", "m", "e", "r", "_", "k", "e", "y">>,
      <<"s", "w", "_", "c", "o", "n", "s", "u", "m", "e", "r", "_", "s", "e", "c", "r", "e", "t">>,
      <<"s", "w", "_", "a", "p", "i", "_", "k", "e", "y">>,
      <<"y", "n", "a", "b", "_", "b", "u", "d", "g", "e", "t", "_", "n", "a", "m", "e">>,
      <<"y", "n", "a", "b", "_", "p", "e", "r", "s", "o", "n", "a", "l", "_", "a", "c", "c", "e", "s", "s", "_", "t", "o", "k", "e", "n">>>>

\* creds.yaml of the working directory (secrets: what yaml.safe_load gives
\* for it, a dict of text) when there is none
NoCreds == [exists |-> FALSE, secrets |-> <<>>]

\* utils.py:7-16: os.environ after setup_environment_vars, or the exception
\* of open() when the file is read and is not there
setup_environment_vars(environ, creds) ==
    IF GithubActionsKey \in DOMAIN environ /\ environ[GithubActionsKey] # ""
    THEN [raised |-> FALSE, environ |-> environ]
    ELSE IF ~creds.exists
    THEN [raised |-> TRUE, environ |-> environ]
    ELSE [raised |-> FALSE,
          environ |-> [key \in DOMAIN environ \cup DOMAIN creds.secrets |->
                          IF key \in DOMAIN creds.secrets
                          THEN creds.secrets[key] ELSE environ[key]]]

\* main.py:463-467. input_dict: the items of the dict in its order, as
\* [key, value]; of the keys with the same lower() the last one gives the
\* value
get_secrets_dict(input_dict) ==
    [key \in {Lower(input_dict[i].key) : i \in 1..Len(input_dict)} |->
        input_dict[CHOOSE i \in 1..Len(input_dict) :
                      /\ Lower(input_dict[i].key) = key
                      /\ \A j \in 1..Len(input_dict) :
                             Lower(input_dict[j].key) = key => j <= i].value]

\* a run of run_for_secrets_dict that did not take place (clients: the
\* ynab_splitwise_transfer was constructed, and with it the clients of SW
\* and YNABClient, whose construction reads the current user, the budgets
\* and the accounts over the network)
NoRun ==
    [asserted |-> FALSE, clients |-> FALSE, raised |-> FALSE, ret |-> 0,
     forward |-> NoPass, reverse |-> NoReverse, transactions |-> {},
     scheduled |-> {}]

\* main.py:501-506: the end of run_for_secrets_dict after the two passes
Returned(forward, reverse) ==
    [NoRun EXCEPT !.clients = TRUE,
                  !.raised = reverse.raised, !.ret = forward.ret,
                  !.forward = forward, !.reverse = reverse,
                  !.transactions = reverse.transactions,
                  !.scheduled = forward.scheduled]

\* main.py:501-506: run_for_secrets_dict from the return of sw_to_ynab on
SyncedBack(forward, sync_ynab_to_sw, world, response, fail) ==
    IF forward.raised \/ ~sync_ynab_to_sw
    THEN [NoRun EXCEPT !.clients = TRUE,
                       !.raised = forward.raised, !.ret = forward.ret,
                       !.forward = forward,
                       !.transactions = forward.transactions,
                       !.scheduled = forward.scheduled]
    ELSE Returned(forward,
                  ynab_to_sw(response, forward.transactions, world, now, fail))

\* run_for_secrets_dict with the account name looked up where it is used,
\* after the secrets were asserted and the clients constructed with them
run_for_secrets_dictLateAssert(secrets_dict, environ, world, mapping, fail_at, response, fail) ==
    IF \E j \in 1..Len(SecretKeys) : SecretKeys[j] \notin DOMAIN secrets_dict
    THEN [NoRun EXCEPT !.asserted = TRUE, !.raised = TRUE,
                       !.transactions = world.transactions,
                       !.scheduled = world.scheduled]
    ELSE IF AccountNameKey \notin DOMAIN environ
    THEN [NoRun EXCEPT !.asserted = TRUE, !.clients = TRUE, !.raised = TRUE,
                       !.transactions = world.transactions,
                       !.scheduled = world.scheduled]
    ELSE SyncedBack(sw_to_ynab(world.expenses, world.transactions,
                               world.scheduled, mapping, now, fail_at),
                    IF SyncYnabToSwKey \in DOMAIN environ
                    THEN Lower(environ[SyncYnabToSwKey]) = <<"t", "r", "u", "e">>
                    ELSE TRUE,
                    world, response, fail)

\* main.py:470-506. world: the accounts behind the credentials, [expenses,
\* transactions, scheduled, sw_friends, current_user_id, category2_id];
\* mapping, fail_at: as for sw_to_ynab; response: the list get_transactions
\* returns to the reverse pass; fail: the failure of the reverse pass. The
\* result holds what the function returned (ret; raised when an exception
\* left it), the two passes and the ledger after them.
run_for_secrets_dict(secrets_dict, environ, world, mapping, fail_at, response, fail) ==
    LET asserted ==
            \/ \E j \in 1..Len(SecretKeys) : SecretKeys[j] \notin DOMAIN secrets_dict
            \/ AccountNameKey \notin DOMAIN environ
        sync_ynab_to_sw ==
            IF SyncYnabToSwKey \in DOMAIN environ
            THEN Lower(environ[SyncYnabToSwKey]) = <<"t", "r", "u", "e">>
            ELSE TRUE
    IN  IF asserted
        THEN [NoRun EXCEPT !.asserted = TRUE, !.raised = TRUE,
                           !.transactions = world.transactions,
                           !.scheduled = world.scheduled]
        ELSE SyncedBack(sw_to_ynab(world.expenses, world.transactions,
                                   world.scheduled, mapping, now, fail_at),
                        sync_ynab_to_sw, world, response, fail)

(***************************************************************************)
(* The expenses and the ledgers of the model.                              *)
(***************************************************************************)
\* the updated_at of the revisions of an expense, oldest first
UpdatedTimes ==
    <<"2025-06-01T10:00:00Z", "2025-06-02T10:00:00Z", "2025-06-03T10:00:00Z">>

Descriptions ==
    <<<<"C", "a", "b">>, <<"D", "i", "n", "e", "r">>, <<"T", "a", "x", "i">>>>

Costs == <<100, 120, 90>>

Oweds == <<50, 60, 30>>

\* the dict get_expenses yields for revision rev of expense id (swid: the
\* tag it builds of the id and the updated_time, sw.py:176)
Expense(id, rev, date, deleted) ==
    [id |-> id,
     description |-> Descriptions[rev],
     cost |-> Costs[rev],
     owed |-> Oweds[rev],
     date |-> date,
     deleted_time |-> deleted,
     updated_time |-> UpdatedTimes[rev],
     group_name |-> IF id % 2 = 1 THEN <<"T", "r", "i", "p">> ELSE <<>>,
     swid |-> construct_memo_swid_tag(id, UpdatedTimes[rev]),
     users |-> IF id % 2 = 1 THEN <<<<"A", "n", "n">>>>
               ELSE <<<<"A", "n", "n">>, <<"B", "o", "b">>>>,
     current_user_paid |-> id % 2 = 1]

\* the ledger transaction that mirrors an expense, under id transaction_id
Mirror(transaction_id, expense) ==
    [BuildTransaction(expense) EXCEPT !.id = transaction_id,
                                      !.date = DateOf(expense.date)]

\* the clock of the model: the last tick but one, so that an expense dated
\* MaxTick is in the future
Clock == MaxTick - 1

(***************************************************************************)
(* SpecBatch: one forward pass on a fetched list drawn from bounded sets   *)
(* (the same id several times, a description that holds a tag) and a       *)
(* ledger that holds mirrors of some of the expenses.                      *)
(***************************************************************************)
\* the dates of the fetched expenses: past, now and in the future
BatchDates == {0, Clock, MaxTick}

\* an expense whose description ends with the tag of another expense, id
Quoting(expense, id) ==
    [expense EXCEPT
        !.description = @ \o <<" ">> \o construct_memo_swid_tag(id, UpdatedTimes[1])]

\* records as get_expenses yields them (each has a date and the tag of its
\* id and updated_time), one of them with a description that quotes the tag
\* of expense 2
BatchExpenses ==
    {Expense(id, rev, date, deleted) :
        id \in 1..MaxSwId, rev \in 1..2, date \in BatchDates,
        deleted \in BOOLEAN}
    \cup {Quoting(Expense(1, 1, 0, FALSE), 2)}

BatchFetches ==
    UNION {[1..n -> BatchExpenses] : n \in 0..MaxFetch}

\* the ledgers of a pass: mirrors of expense 1 and 2, regular and scheduled
BatchLedgers ==
    LET m1 == Mirror(4, Expense(1, 1, 0, FALSE))
        m2 == Mirror(5, Expense(2, 1, Clock, FALSE))
        s3 == Mirror(6, Expense(1, 1, MaxTick, FALSE))
    IN  {[transactions |-> {}, scheduled |-> {}],
         [transactions |-> {m1}, scheduled |-> {}],
         [transactions |-> {m1, m2}, scheduled |-> {}],
         [transactions |-> {m2}, scheduled |-> {}],
         [transactions |-> {m2}, scheduled |-> {s3}],
         [transactions |-> {m1}, scheduled |-> {s3}]}

NoPrev == [ok |-> FALSE, expenses |-> <<>>]

\* get_expenses before it is called
NoFetch == [objects |-> <<>>, done |-> FALSE, expenses |-> <<>>, raised |-> FALSE]

\* update_ynab before it is called
NoSplit == [transaction |-> <<>>, done |-> FALSE, updated |-> <<>>]

\* __main__ before it starts (exit_code: None while the process runs)
NoMain ==
    [pc |-> "idle", i |-> 0, ret |-> 0, exit_code |-> None, ran |-> <<>>,
     environ |-> <<>>, creds |-> NoCreds]

InitBatch ==
    /\ sw_fetch = NoFetch
    /\ split = NoSplit
    /\ codec_in = NoCodec
    /\ codec_out = Idle
    /\ sw_expenses \in BatchFetches
    /\ \E ledger \in BatchLedgers :
           /\ ynab_transactions = ledger.transactions
           /\ ynab_scheduled = ledger.scheduled
    /\ now = Clock
    /\ pass = NoPass
    /\ prev = NoPrev
    /\ users = <<>>
    /\ main = NoMain

\* the calls the pass issues when the network fails none
CallsOf(expenses, transactions, scheduled, mapping, clock) ==
    Len(sw_to_ynab(expenses, transactions, scheduled, mapping, clock, 0).calls)

\* sw_to_ynab on the current source and ledger; the network fails one of the
\* write calls, or none, when network_fails, and none otherwise
ForwardPass(network_fails) ==
    \E mapping \in DedupIndexes(sw_expenses, ynab_transactions, ynab_scheduled) :
      \E fail_at \in IF network_fails
                     THEN 0..CallsOf(sw_expenses, ynab_transactions,
                                     ynab_scheduled, mapping, now)
                     ELSE {0} :
        /\ pass' = sw_to_ynab(sw_expenses, ynab_transactions, ynab_scheduled,
                              mapping, now, fail_at)
        /\ ynab_transactions' = pass'.transactions
        /\ ynab_scheduled' = pass'.scheduled
        /\ prev' = [ok |-> pass.ran /\ ~pass.raised /\ pass.ret = 0,
                    expenses |-> pass.expenses]

BatchPass ==
    /\ ~pass.ran
    /\ ForwardPass(TRUE)
    /\ UNCHANGED <<split, sw_fetch, codec_in, codec_out, sw_expenses, now, users, main>>

NextBatch == BatchPass

SpecBatch == InitBatch /\ [][NextBatch]_vars

(***************************************************************************)
(* SpecRetry: a pass in which a write call failed, and the pass of the     *)
(* next run over the same source records, in which the network fails none. *)
(***************************************************************************)
\* sw_to_ynab of the next run (prev.first: the locals of the pass that
\* failed, with the ledger as it left it)
RetryPass ==
    /\ pass.ran
    /\ pass.failed_call > 0
    /\ "first" \notin DOMAIN prev
    /\ \E mapping \in DedupIndexes(sw_expenses, ynab_transactions, ynab_scheduled) :
           pass' = sw_to_ynab(sw_expenses, ynab_transactions, ynab_scheduled,
                              mapping, now, 0)
    /\ ynab_transactions' = pass'.transactions
    /\ ynab_scheduled' = pass'.scheduled
    /\ prev' = [ok |-> FALSE, expenses |-> pass.expenses, first |-> pass]
    /\ UNCHANGED <<split, sw_fetch, codec_in, codec_out, sw_expenses, now,
                   users, main>>

NextRetry == BatchPass \/ RetryPass

SpecRetry == InitBatch /\ [][NextRetry]_vars

(***************************************************************************)
(* Spec: passes over a source that changes between them. Splitwise holds   *)
(* each expense once; sw_expenses is the list get_expenses yields, in the  *)
(* order the expenses were created.                                        *)
(***************************************************************************)
Init ==
    /\ sw_fetch = NoFetch
    /\ split = NoSplit
    /\ codec_in = NoCodec
    /\ codec_out = Idle
    /\ sw_expenses = <<>>
    /\ ynab_transactions = {}
    /\ ynab_scheduled = {}
    /\ now = Clock
    /\ pass = NoPass
    /\ prev = NoPrev
    /\ users = <<>>
    /\ main = NoMain

RevOf(expense) == CHOOSE r \in 1..Len(UpdatedTimes) :
                      UpdatedTimes[r] = expense.updated_time

\* the dates a user gives an expense: past, now and in the future
SwDates == {0, Clock, MaxTick}

\* a user adds an expense to Splitwise (the locals of the last pass are gone
\* by then)
SwCreate ==
    /\ Len(sw_expenses) < MaxSwId
    /\ \E date \in SwDates :
           sw_expenses' = Append(sw_expenses,
               Expense(Len(sw_expenses) + 1, 1, date, FALSE))
    /\ pass' = NoPass
    /\ prev' = NoPrev
    /\ UNCHANGED <<split, sw_fetch, codec_in, codec_out, ynab_transactions, ynab_scheduled, now,
                   users, main>>

\* a user edits an expense (its cost and description, and maybe its date)
SwEdit ==
    /\ \E i \in 1..Len(sw_expenses), date \in SwDates :
           /\ ~sw_expenses[i].deleted_time
           /\ RevOf(sw_expenses[i]) < Len(UpdatedTimes)
           /\ sw_expenses' = [sw_expenses EXCEPT ![i] =
                  Expense(i, RevOf(@) + 1, date, FALSE)]
    /\ pass' = NoPass
    /\ prev' = NoPrev
    /\ UNCHANGED <<split, sw_fetch, codec_in, codec_out, ynab_transactions, ynab_scheduled, now,
                   users, main>>

\* a user deletes an expense: Splitwise keeps it, with deleted_at set
SwDelete ==
    /\ \E i \in 1..Len(sw_expenses) :
           /\ ~sw_expenses[i].deleted_time
           /\ RevOf(sw_expenses[i]) < Len(UpdatedTimes)
           /\ sw_expenses' = [sw_expenses EXCEPT ![i] =
                  Expense(i, RevOf(@) + 1, @.date, TRUE)]
    /\ pass' = NoPass
    /\ prev' = NoPrev
    /\ UNCHANGED <<split, sw_fetch, codec_in, codec_out, ynab_transactions, ynab_scheduled, now,
                   users, main>>

SyncPass ==
    /\ Cardinality(ynab_transactions) + Cardinality(ynab_scheduled) <= MaxLedger
    /\ ForwardPass(FALSE)
    /\ UNCHANGED <<split, sw_fetch, codec_in, codec_out, sw_expenses, now, users, main>>

Next == SwCreate \/ SwEdit \/ SwDelete \/ SyncPass

Spec == Init /\ [][Next]_vars

InitCodec ==
    /\ sw_fetch = NoFetch
    /\ split = NoSplit
    /\ codec_in \in CodecInputs
    /\ codec_out = Idle
    /\ sw_expenses = <<>>
    /\ ynab_transactions = {}
    /\ ynab_scheduled = {}
    /\ now = Clock
    /\ pass = NoPass
    /\ prev = NoPrev
    /\ users = <<>>
    /\ main = NoMain

NextCodec == CallUtils

SpecCodec == InitCodec /\ [][NextCodec]_vars

(***************************************************************************)
(* sw.py: get_expenses.                                                    *)
(*                                                                         *)
(* An object is an Expense of the splitwise library: [id, description,     *)
(* cost, date, deleted_at, updated_at, group_id, creation_method, payment, *)
(* users]; a user of it is [id, first_name, last_name, paid_share,         *)
(* owed_share], a name that is None or empty being <<>>. The users of      *)
(* SpecFetch are those of four expenses, one of them with a participant    *)
(* that has a last name only; those of SpecNames have every combination of *)
(* names. The objects come in one page of the fetch.                       *)
(***************************************************************************)
\* what a function gives when an assert of it fails
AssertionError == <<"AssertionError">>

\* sw.py:11-20 (the ids of the model are not None)
get_user_first_and_last_name_as_id(user) ==
    IF Len(user.first_name) > 0 \/ Len(user.last_name) > 0
    THEN AssertionError
    ELSE <<"U", "s", "e", "r", " ", "#">> \o Str(user.id)

get_user_first_and_last_name(user) ==
    IF Len(user.first_name) = 0 /\ Len(user.last_name) = 0
    THEN get_user_first_and_last_name_as_id(user)
    ELSE IF Len(user.last_name) = 0 THEN user.first_name
    ELSE user.first_name \o <<" ">> \o user.last_name

get_user_first_and_last_name_with_id(user) ==
    IF Len(user.first_name) = 0 THEN get_user_first_and_last_name_as_id(user)
    ELSE get_user_first_and_last_name(user) \o <<" ", "-", " ">> \o Str(user.id)

\* sw.py:66-79: the loop returns True (it ends at the first user that is
\* the current user, unless the naming of a user before raised)
_expense_involves_current_user(expense, current_user) ==
    \E i \in 1..Len(expense.users) :
        /\ get_user_first_and_last_name_with_id(expense.users[i]) = current_user
        /\ \A j \in 1..(i - 1) :
               get_user_first_and_last_name_with_id(expense.users[j])
                   # AssertionError

\* sw.py:145, 206-207: an AssertionError leaves get_expenses at this object,
\* from the test that it involves the current user or, when the object is
\* one to yield, from the loop over its users
Aborts(expense, current_user) ==
    LET Fails(i) == get_user_first_and_last_name_with_id(expense.users[i])
                        = AssertionError
    IN  \/ \E i \in 1..Len(expense.users) :
               /\ Fails(i)
               /\ \A j \in 1..(i - 1) :
                      get_user_first_and_last_name_with_id(expense.users[j])
                          # current_user
        \/ /\ _expense_involves_current_user(expense, current_user)
           /\ expense.date # None
           /\ \E i \in 1..Len(expense.users) : Fails(i)

\* self.sw.getGroup(id=group_id).getName()
GroupName(group_id) == <<"T", "r", "i", "p">>

_expense_group_name(expense) ==
    IF expense.group_id # None /\ expense.group_id > 0
    THEN GroupName(expense.group_id)
    ELSE <<>>

_is_debt_consolidation_expense(expense) ==
    /\ expense.creation_method = "debt_consolidation"
    /\ Len(_expense_group_name(expense)) = 0

_current_user_paid(expense, current_user) ==
    \E i \in 1..Len(expense.users) :
        /\ expense.users[i].paid_share = expense.cost
        /\ get_user_first_and_last_name_with_id(expense.users[i]) = current_user

\* sum of the owed shares of the users at the positions of S
RECURSIVE OwedShares(_, _)
OwedShares(users_of, S) ==
    IF S = {} THEN 0
    ELSE LET i == CHOOSE i \in S : TRUE
         IN  users_of[i].owed_share + OwedShares(users_of, S \ {i})

\* ExpenseDict with owed computed from getPaidShare of the current user
ExpenseDictOfPaidShare(expense, current_user) ==
    LET IsCurrent(user) ==
            get_user_first_and_last_name_with_id(user) = current_user
        IsOther(user) == ~IsCurrent(user)
        mine == {i \in 1..Len(expense.users) : IsCurrent(expense.users[i])}
        last == CHOOSE i \in mine : \A j \in mine : j <= i
        others == SelectSeq(expense.users, IsOther)
    IN  [id |-> expense.id,
         description |-> expense.description,
         cost |-> expense.cost,
         owed |-> IF mine = {} THEN 0
                  ELSE expense.cost - expense.users[last].paid_share,
         date |-> expense.date,
         deleted_time |-> expense.deleted_at,
         updated_time |-> expense.updated_at,
         group_name |-> _expense_group_name(expense),
         swid |-> construct_memo_swid_tag(expense.id, expense.updated_at),
         users |-> [j \in 1..Len(others) |->
                       get_user_first_and_last_name(others[j])],
         current_user_paid |-> _current_user_paid(expense, current_user),
         what_other_users_paid |->
             OwedShares(expense.users, (1..Len(expense.users)) \ mine)]

\* sw.py:165-231: the dict yielded for an object (created_time, which
\* nothing reads, is left out)
ExpenseDict(expense, current_user) ==
    LET IsCurrent(user) ==
            get_user_first_and_last_name_with_id(user) = current_user
        IsOther(user) == ~IsCurrent(user)
        mine == {i \in 1..Len(expense.users) : IsCurrent(expense.users[i])}
        last == CHOOSE i \in mine : \A j \in mine : j <= i
        others == SelectSeq(expense.users, IsOther)
    IN  [id |-> expense.id,
         description |-> expense.description,
         cost |-> expense.cost,
         owed |-> IF mine = {} THEN 0
                  ELSE expense.cost - expense.users[last].owed_share,
         date |-> expense.date,
         deleted_time |-> expense.deleted_at,
         updated_time |-> expense.updated_at,
         group_name |-> _expense_group_name(expense),
         swid |-> construct_memo_swid_tag(expense.id, expense.updated_at),
         users |-> [j \in 1..Len(others) |->
                       get_user_first_and_last_name(others[j])],
         current_user_paid |-> _current_user_paid(expense, current_user),
         what_other_users_paid |->
             OwedShares(expense.users, (1..Len(expense.users)) \ mine)]

\* Yields with the skip of the debt-consolidation expenses without a group
\* that the loop once had ("continue" where it now has "pass")
YieldsButConsolidation(expense, current_user) ==
    /\ _expense_involves_current_user(expense, current_user)
    /\ expense.date # None
    /\ ~_is_debt_consolidation_expense(expense)

\* sw.py:142-232: the loop yields a dict for the object
Yields(expense, current_user) ==
    /\ _expense_involves_current_user(expense, current_user)
    /\ expense.date # None

RECURSIVE YieldFrom(_, _, _)
YieldFrom(objects, i, current_user) ==
    IF i > Len(objects) THEN <<>>
    ELSE IF Yields(objects[i], current_user)
    THEN <<ExpenseDict(objects[i], current_user)>>
             \o YieldFrom(objects, i + 1, current_user)
    ELSE YieldFrom(objects, i + 1, current_user)

\* the list of the dicts get_expenses yields for the objects getExpenses
\* returned
get_expenses(objects, current_user) == YieldFrom(objects, 1, current_user)

(***************************************************************************)
(* SpecFetch: get_expenses on objects drawn from bounded sets.             *)
(***************************************************************************)
\* a user of an expense
ExpenseUser(id, first_name, last_name, paid_share, owed_share) ==
    [id |-> id, first_name |-> first_name, last_name |-> last_name,
     paid_share |-> paid_share, owed_share |-> owed_share]

\* self.current_user (sw.py:52) of the user Ann Lee, id 1
CurrentUser ==
    get_user_first_and_last_name_with_id(
        ExpenseUser(1, <<"A", "n", "n">>, <<"L", "e", "e">>, 0, 0))

\* the users of an expense of cost 100: the current user paid; she did not
\* and owes; she has no part in it; she shares it with a participant that
\* has a last name only
FetchUsers ==
    {<<ExpenseUser(1, <<"A", "n", "n">>, <<"L", "e", "e">>, 100, 50),
       ExpenseUser(7, <<"B", "o", "b">>, <<>>, 0, 50)>>,
     <<ExpenseUser(7, <<"B", "o", "b">>, <<>>, 100, 40),
       ExpenseUser(1, <<"A", "n", "n">>, <<"L", "e", "e">>, 0, 30),
       ExpenseUser(9, <<>>, <<>>, 0, 30)>>,
     <<ExpenseUser(7, <<"B", "o", "b">>, <<>>, 100, 50),
       ExpenseUser(9, <<>>, <<>>, 0, 50)>>,
     <<ExpenseUser(1, <<"A", "n", "n">>, <<"L", "e", "e">>, 0, 50),
       ExpenseUser(8, <<>>, <<"K", "i", "m">>, 100, 50)>>}

\* the objects of a fetch but for their id
FetchObjects ==
    [id : {0}, description : {<<"C", "a", "b">>}, cost : {100},
     date : {None, 0}, deleted_at : {FALSE},
     updated_at : {"2025-06-01T10:00:00Z"},
     group_id : {None, 0, 3},
     creation_method : {"equal", "debt_consolidation"},
     payment : {FALSE}, users : FetchUsers]

\* the lists getExpenses returns: the object at position i has id i
FetchLists ==
    UNION {{[i \in 1..n |-> [objects[i] EXCEPT !.id = i]] :
               objects \in [1..n -> FetchObjects]} : n \in 0..MaxFetch}

InitFetch ==
    /\ sw_fetch \in {[NoFetch EXCEPT !.objects = objects] : objects \in FetchLists}
    /\ split = NoSplit
    /\ codec_in = NoCodec
    /\ codec_out = Idle
    /\ sw_expenses = <<>>
    /\ ynab_transactions = {}
    /\ ynab_scheduled = {}
    /\ now = Clock
    /\ pass = NoPass
    /\ prev = NoPrev
    /\ users = <<>>
    /\ main = NoMain

\* sw.py:122-236: get_expenses, and list(expenses) of main.py:139, which
\* an exception of the generator leaves without a list
GetExpenses ==
    /\ ~sw_fetch.done
    /\ sw_fetch' =
           IF \E i \in 1..Len(sw_fetch.objects) :
                  Aborts(sw_fetch.objects[i], CurrentUser)
           THEN [sw_fetch EXCEPT !.done = TRUE, !.raised = TRUE]
           ELSE [sw_fetch EXCEPT
                    !.done = TRUE,
                    !.expenses = get_expenses(sw_fetch.objects, CurrentUser)]
    /\ sw_expenses' = sw_fetch'.expenses
    /\ UNCHANGED <<split, codec_in, codec_out, ynab_transactions, ynab_scheduled, now,
                   pass, prev, users, main>>

NextFetch == GetExpenses

SpecFetch == InitFetch /\ [][NextFetch]_vars

(***************************************************************************)
(* SpecNames: get_expenses on expenses whose users have an id and every    *)
(* combination of a first and a last name, present or not.                 *)
(***************************************************************************)
NameUsers ==
    {ExpenseUser(id, first_name, last_name, 0, 50) :
        id \in {1, 9}, first_name \in {<<>>, <<"A", "n", "n">>},
        last_name \in {<<>>, <<"L", "e", "e">>}}

InitNames ==
    /\ sw_fetch \in
           {[NoFetch EXCEPT !.objects =
                 <<[id |-> 1, description |-> <<"C", "a", "b">>, cost |-> 100,
                    date |-> date, deleted_at |-> FALSE,
                    updated_at |-> "2025-06-01T10:00:00Z", group_id |-> None,
                    creation_method |-> "equal", payment |-> FALSE,
                    users |-> <<first, second>>]>>] :
               date \in {None, 0}, first \in NameUsers, second \in NameUsers}
    /\ split = NoSplit
    /\ codec_in = NoCodec
    /\ codec_out = Idle
    /\ sw_expenses = <<>>
    /\ ynab_transactions = {}
    /\ ynab_scheduled = {}
    /\ now = Clock
    /\ pass = NoPass
    /\ prev = NoPrev
    /\ users = <<>>
    /\ main = NoMain

SpecNames == InitNames /\ [][NextFetch]_vars

(***************************************************************************)
(* SpecMain: the process from start to exit, with multi_user_secrets_json  *)
(* drawn from bounded sets (users; empty for a run on os.environ alone).   *)
(* Each entry of users holds the secrets of one user and the accounts      *)
(* behind them (world); a run on os.environ works on sw_expenses and the   *)
(* ledger variables. The process starts in GitHub Actions or outside of    *)
(* it, with or without a creds.yaml.                                       *)
(***************************************************************************)
\* the keys of an entry of multi_user_secrets_json, as the file spells them
ConfigKeys ==
    <<<<"U", "s", "e", "r", "_", "N", "a", "m", "e">>,
     <<"S", "W", "_", "C", "O", "N", "S", "U", "M", "E", "R", "_", "K", "E", "Y">>,
     <<"S", "W", "_", "C", "O", "N", "S", "U", "M", "E", "R", "_", "S", "E", "C", "R", "E", "T">>,
     <<"S", "W", "_", "A", "P", "I", "_", "K", "E", "Y">>,
     <<"Y", "N", "A", "B", "_", "B", "U", "D", "G", "E", "T", "_", "N", "A", "M", "E">>,
     <<"Y", "N", "A", "B", "_", "P", "E", "R", "S", "O", "N", "A", "L", "_", "A", "C", "C", "E", "S", "S", "_", "T", "O", "K", "E", "N">>>>

\* an entry for user_name that lacks the keys of without: its items, in the
\* order of the file
UserDict(user_name, without) ==
    LET Kept(k) == k \notin without
        keys == SelectSeq(ConfigKeys, Kept)
    IN  [i \in 1..Len(keys) |->
            [key |-> keys[i],
             value |-> IF Lower(keys[i]) = UserNameKey THEN user_name
                       ELSE "secret"]]

\* an entry; an entry with two keys that differ in case only, "user_name"
\* before "User_Name", the second without a name; an entry with the same
\* two keys, the second with a name, that lacks a key
MainDicts ==
    {UserDict("ann", {}),
     <<[key |-> UserNameKey, value |-> "bob"]>> \o UserDict("", {}),
     <<[key |-> UserNameKey, value |-> ""]>>
         \o UserDict("cat", {<<"S", "W", "_", "A", "P", "I", "_", "K", "E", "Y">>})}

\* os.environ: GITHUB_ACTIONS, the account name, the secrets of a run
\* without users, and maybe the switch of the reverse pass
Environ(without, sync_ynab_to_sw) ==
    LET keys == ({SecretKeys[j] : j \in 1..Len(SecretKeys)}
                     \cup {GithubActionsKey, AccountNameKey, SyncYnabToSwKey})
                    \ without
    IN  [k \in keys |-> IF k = SyncYnabToSwKey THEN sync_ynab_to_sw
                        ELSE IF k = GithubActionsKey THEN "true"
                        ELSE "secret"]

MainEnvirons ==
    {Environ({SyncYnabToSwKey}, <<>>),
     Environ({}, <<"F", "a", "l", "s", "e">>),
     Environ({SyncYnabToSwKey, AccountNameKey}, <<>>),
     Environ({SyncYnabToSwKey, SecretKeys[3]}, <<>>)}

\* a creds.yaml that holds the secrets
SecretsFile ==
    [exists |-> TRUE,
     secrets |-> [k \in {SecretKeys[j] : j \in 1..Len(SecretKeys)} |-> "secret"]]

\* os.environ and creds.yaml at the start of the process: in GitHub Actions
\* without a file; outside of it without a file; with GITHUB_ACTIONS empty
\* and the secrets in the file only. (multi_user_secrets_json is in
\* os.environ, not in the file: users.)
MainStarts ==
    {[environ |-> environ, creds |-> NoCreds] : environ \in MainEnvirons}
        \cup {[environ |-> Environ({SyncYnabToSwKey, GithubActionsKey}, <<>>),
               creds |-> NoCreds],
              [environ |-> [Environ({SyncYnabToSwKey}
                                        \cup DOMAIN SecretsFile.secrets, <<>>)
                               EXCEPT ![GithubActionsKey] = ""],
               creds |-> SecretsFile]}

\* a ledger transaction the user entered by hand, to be split
Entered(transaction_id, memo, amount) ==
    [id |-> transaction_id,
     account_id |-> "ynab_account_id",
     date |-> 0,
     amount |-> amount,
     payee_name |-> <<"C", "a", "f", "e">>,
     memo |-> memo,
     cleared |-> "cleared",
     subtransactions |-> <<>>,
     import_id |-> NoImportId,
     frequency |-> "None",
     category_id |-> "dining"]

EnteredWithBob ==
    Entered(4,
            <<"S", "p", "l", "i", "t", "w", "i", "s", "e", " ", "w", "i", "t", "h", " ", "B", "o", "b">>,
            0 - 30000)

EnteredAlone == Entered(5, <<"s", "p", "l", "i", "t", "w", "i", "s", "e">>, 0 - 45000)

\* a transaction split with a name that no friend of Splitwise carries
EnteredWithZed ==
    Entered(6,
            <<"S", "p", "l", "i", "t", "w", "i", "s", "e", " ", "w", "i", "t", "h", " ", "Z", "e", "d">>,
            0 - 30000)

\* a transaction whose memo holds the marker word after other text
EnteredCab ==
    Entered(7,
            <<"C", "a", "b", " ", "s", "p", "l", "i", "t", "w", "i", "s", "e", " ", "w", "i", "t", "h", " ", "B", "o", "b">>,
            0 - 30000)

\* a transaction split with two names that the same friend carries
EnteredRayBob ==
    Entered(8,
            <<"S", "p", "l", "i", "t", "w", "i", "s", "e", " ", "w", "i", "t", "h", " ", "R", "a", "y", ",", " ", "B", "o", "b">>,
            0 - 30000)

SwFriends ==
    <<[name |-> <<"B", "o", "b", " ", "R", "a", "y">>, id |-> 7],
      [name |-> <<"A", "n", "n", " ", "L", "e", "e">>, id |-> 8]>>

World(expenses, transactions, scheduled) ==
    [expenses |-> expenses, transactions |-> transactions,
     scheduled |-> scheduled, sw_friends |-> SwFriends,
     current_user_id |-> 1, category2_id |-> "splitwise"]

\* nothing to do; a mirror to delete; transactions to split; both
\* directions; a deleted expense whose mirror is scheduled; transactions to
\* split with an unknown name and with the marker word inside the memo; a
\* transaction to split with two names of one friend; an expense to mirror
\* whose description holds the marker word
MainWorlds ==
    {World(<<>>, {}, {}),
     World(<<Expense(1, 2, 0, TRUE)>>,
           {Mirror(1, Expense(1, 1, 0, FALSE))}, {}),
     World(<<>>, {EnteredWithBob, EnteredAlone}, {}),
     World(<<Expense(1, 1, 0, FALSE)>>, {EnteredWithBob}, {}),
     World(<<Expense(1, 2, MaxTick, TRUE)>>, {},
           {Mirror(3, Expense(1, 1, MaxTick, FALSE))}),
     World(<<>>, {EnteredWithZed, EnteredCab}, {}),
     World(<<>>, {EnteredRayBob}, {}),
     World(<<[Expense(1, 1, 0, FALSE) EXCEPT
                  !.description = SplitwiseText \o <<" ">> \o Descriptions[1]]>>,
           {}, {})}

MainUsers ==
    UNION {[1..n -> [secrets : MainDicts, world : MainWorlds]] : n \in 0..MaxUsers}

InitMain ==
    /\ sw_fetch = NoFetch
    /\ split = NoSplit
    /\ codec_in = NoCodec
    /\ codec_out = Idle
    /\ users \in MainUsers
    /\ \E world \in MainWorlds :
           /\ Len(users) > 0 => world = World(<<>>, {}, {})
           /\ sw_expenses = world.expenses
           /\ ynab_transactions = world.transactions
           /\ ynab_scheduled = world.scheduled
    /\ now = Clock
    /\ pass = NoPass
    /\ prev = NoPrev
    /\ \E start \in MainStarts :
           main = [NoMain EXCEPT !.environ = start.environ,
                                 !.creds = start.creds]

\* main.py:509-515: the start of __main__. An exception that leaves
\* setup_environment_vars ends the process.
MainStart ==
    /\ main.pc = "idle"
    /\ LET setup == setup_environment_vars(main.environ, main.creds)
       IN  main' = IF setup.raised
                   THEN [main EXCEPT !.pc = "crashed", !.exit_code = 1]
                   ELSE [main EXCEPT
                            !.environ = setup.environ,
                            !.pc = IF Len(users) > 0 THEN "users" ELSE "environ"]
    /\ UNCHANGED <<split, sw_fetch, codec_in, codec_out, sw_expenses, ynab_transactions,
                   ynab_scheduled, now, pass, prev, users>>

\* user_dict.get("user_name", "") is not empty
Named(user_dict) ==
    /\ UserNameKey \in DOMAIN user_dict
    /\ user_dict[UserNameKey] # ""

\* main.py:516-519: a round of the loop for an entry without user_name
SkipUser ==
    /\ main.pc = "users"
    /\ main.i < Len(users)
    /\ ~Named(get_secrets_dict(users[main.i + 1].secrets))
    /\ main' = [main EXCEPT !.i = @ + 1]
    /\ UNCHANGED <<split, sw_fetch, codec_in, codec_out, sw_expenses, ynab_transactions,
                   ynab_scheduled, now, pass, prev, users>>

\* main.py:520-525: what __main__ does with the outcome of
\* run_for_secrets_dict for entry i (0: os.environ), and Splitwise and the
\* ledger after it
Ran(i, world, run) ==
    /\ main' = [main EXCEPT
           !.i = i,
           !.ran = Append(@, [i |-> i, run |-> run]),
           !.ret = IF run.raised THEN @
                   ELSE IF i = 0 THEN run.ret
                   ELSE IF run.ret # 0 THEN 1 ELSE @,
           !.pc = IF run.raised THEN "crashed"
                  ELSE IF i = 0 THEN "ran" ELSE @,
           !.exit_code = IF run.raised THEN 1 ELSE @]
    /\ pass' = run.forward
    /\ sw_expenses' = world.expenses \o Created(run.reverse.calls)
    /\ ynab_transactions' = run.transactions
    /\ ynab_scheduled' = run.scheduled
    /\ users' = IF i = 0 THEN users
                ELSE [users EXCEPT
                         ![i].world.expenses = @ \o Created(run.reverse.calls),
                         ![i].world.transactions = run.transactions,
                         ![i].world.scheduled = run.scheduled]

\* the lists get_transactions can return to the reverse pass after forward
ResponsesAfter(forward) == Responses(forward.transactions, now)

\* run_for_secrets_dict on world with every outcome the ledger reads and the
\* network allow
RunFor(secrets_dict, world, i) ==
    \E mapping \in DedupIndexes(world.expenses, world.transactions,
                                world.scheduled) :
      \E fail_at \in 0..CallsOf(world.expenses, world.transactions,
                                world.scheduled, mapping, now) :
        \E fail \in ReverseFailures :
          \E response \in ResponsesAfter(
                 sw_to_ynab(world.expenses, world.transactions, world.scheduled,
                            mapping, now, fail_at)) :
            Ran(i, world,
                run_for_secrets_dict(secrets_dict, main.environ, world,
                                     mapping, fail_at, response, fail))

\* main.py:516-523: a round of the loop for an entry with user_name
RunUser ==
    /\ main.pc = "users"
    /\ main.i < Len(users)
    /\ Named(get_secrets_dict(users[main.i + 1].secrets))
    /\ RunFor(get_secrets_dict(users[main.i + 1].secrets),
              users[main.i + 1].world, main.i + 1)
    /\ UNCHANGED <<split, sw_fetch, codec_in, codec_out, now, prev>>

\* main.py:524-525: the run on os.environ when no user is configured
RunEnviron ==
    /\ main.pc = "environ"
    /\ RunFor(main.environ,
              World(sw_expenses, ynab_transactions, ynab_scheduled), 0)
    /\ UNCHANGED <<split, sw_fetch, codec_in, codec_out, now, prev>>

\* main.py:526: sys.exit(ret)
MainExit ==
    /\ \/ main.pc = "users" /\ main.i = Len(users)
       \/ main.pc = "ran"
    /\ main' = [main EXCEPT !.pc = "exited", !.exit_code = main.ret]
    /\ UNCHANGED <<split, sw_fetch, codec_in, codec_out, sw_expenses, ynab_transactions,
                   ynab_scheduled, now, pass, prev, users>>

NextMain == MainStart \/ SkipUser \/ RunUser \/ RunEnviron \/ MainExit

SpecMain == InitMain /\ [][NextMain]_vars

(***************************************************************************)
(* SpecSplit: the reverse pass on a ledger that holds one transaction to    *)
(* split, of every amount, in milliunits, whose memo names no friend, one, *)
(* two or three; every call succeeds.                                      *)
(***************************************************************************)
SplitMemos ==
    {<<"s", "p", "l", "i", "t", "w", "i", "s", "e">>,
     <<"S", "p", "l", "i", "t", "w", "i", "s", "e", " ", "w", "i", "t", "h", " ", "B", "o", "b">>,
     <<"S", "p", "l", "i", "t", "w", "i", "s", "e", " ", "w", "i", "t", "h", " ", "B", "o", "b", " ", "a", "n", "d", " ", "A", "n", "n">>,
     <<"S", "p", "l", "i", "t", "w", "i", "s", "e", " ", "w", "i", "t", "h", " ", "B", "o", "b", ",", " ", "A", "n", "n", " ", "a", "n", "d", " ", "Z", "e", "d">>}

InitSplit ==
    /\ split \in {[NoSplit EXCEPT !.transaction = Entered(4, memo, amount)] :
                     memo \in SplitMemos, amount \in (0 - MaxAmount)..MaxAmount}
    /\ sw_fetch = NoFetch
    /\ codec_in = NoCodec
    /\ codec_out = Idle
    /\ sw_expenses = <<>>
    /\ ynab_transactions = {split.transaction}
    /\ ynab_scheduled = {}
    /\ now = Clock
    /\ pass = NoPass
    /\ prev = NoPrev
    /\ users = <<>>
    /\ main = NoMain

\* main.py:435-460: the round of the reverse pass for the transaction of the
\* ledger: create_expense, which gives an expense, and update_ynab with the
\* friends extracted from the memo (split.updated: the transaction sent to
\* update_transaction)
UpdateYnab ==
    /\ ~split.done
    /\ split.transaction \in ynab_transactions
    /\ LET reverse ==
               ynab_to_sw(<<split.transaction>>, ynab_transactions,
                          World(sw_expenses, ynab_transactions, ynab_scheduled),
                          now, [at |-> 0, how |-> "ok"])
       IN  /\ split' = [split EXCEPT
                  !.done = TRUE,
                  !.updated = reverse.calls[Len(reverse.calls)].payload]
           /\ sw_expenses' = sw_expenses \o Created(reverse.calls)
           /\ ynab_transactions' = reverse.transactions
    /\ UNCHANGED <<sw_fetch, codec_in, codec_out, ynab_scheduled, now, pass,
                   prev, users, main>>

NextSplit == UpdateYnab

SpecSplit == InitSplit /\ [][NextSplit]_vars

(***************************************************************************)
(* Properties.                                                             *)
(***************************************************************************)
\* the updated-time hash of the tag of the expense, and of the tag of the memo
ExpenseTagHash == generate_truncated_hash_for_updated_time(codec_in.updated_at)

MemoTagHash == generate_truncated_hash_for_updated_time(codec_in.memo_time)

\* C5: check_if_needs_to_update returns true exactly when the expense and the
\* memo both carry a tag, the source ids of the two tags are equal and their
\* hashes differ, for every source id from 0 on.
C5_NeedsUpdateIffSameIdOtherHash ==
    codec_out.done =>
        (codec_out.needs_update <=>
            /\ codec_in.has_swid
            /\ codec_in.memo_tagged
            /\ codec_in.expense_id = codec_in.memo_id
            /\ ExpenseTagHash # MemoTagHash)

\* C6: extracting from the tag built for (id, updated_at) gives the text of
\* the tag, the id as an integer and the truncated hash of updated_at, both
\* for the tag alone and for the tag with text before and after it.
C6_TagRoundTrip ==
    codec_out.done =>
        LET expected == [full |-> codec_out.tag,
                         id |-> codec_in.expense_id,
                         hash |-> ExpenseTagHash]
        IN  /\ codec_out.extracted = expected
            /\ codec_out.embedded = expected

\* a tag of a two-digit id extracted from between the opening of another tag
\* and text that ends like one
C6_Witness ==
    /\ codec_out.done
    /\ codec_in.expense_id = 10
    /\ codec_in.prefix = <<"[", "S", "W", "I", "D", ":", "1", "-", "x">>
    /\ codec_in.suffix = <<"-", "a", "b", "]">>
    /\ codec_out.embedded.id = 10

\* the transactions of the ledger, regular and scheduled, whose memo tag
\* carries source id k
MirrorsOf(k) ==
    {t \in ynab_transactions \cup ynab_scheduled :
        extract_swid_from_memo(t.memo).id = k}

\* C1: a pass that follows a pass all of whose writes succeeded, on the same
\* source records and on the ledger as that pass left it, issues no create,
\* update, scheduled-create or delete call.
C1_Idempotence ==
    (pass.ran /\ prev.ok /\ prev.expenses = pass.expenses) => pass.calls = <<>>

\* C2: the ledger, regular plus scheduled, holds at most one transaction
\* whose memo tag carries a given source id.
C2_AtMostOneMirror ==
    \A k \in 1..MaxSwId : Cardinality(MirrorsOf(k)) <= 1

\* a write call of the run failed: a ledger write of the forward pass raised
\* (inside the try: ret = 1; outside it: the exception left the pass), or a
\* write of the reverse pass raised or returned without writing
WriteFailed(run) ==
    \/ run.forward.raised
    \/ run.forward.ret = 1
    \/ run.reverse.failed

Terminated == main.pc \in {"exited", "crashed"}

\* the process ended before its first run, on the file of the credentials
StartFailed == main.pc = "crashed" /\ main.ran = <<>>

\* C9: when the process has ended, after a start that found its
\* configuration and runs that had their credentials, the exit code is 0 if
\* every write of every run (forward and reverse) succeeded or there was
\* nothing to do, and 1 if any write failed.
C9_ExitContract ==
    (/\ Terminated
     /\ ~StartFailed
     /\ \A j \in 1..Len(main.ran) : ~main.ran[j].run.asserted)
    => (main.exit_code = 0 <=>
            \A j \in 1..Len(main.ran) : ~WriteFailed(main.ran[j].run))

\* C10: when the process has ended, after a start that found its
\* configuration, every configured user with a user_name has had its pass
\* run, whatever happened in the passes before it.
C10_MultiUserIsolation ==
    (Terminated /\ ~StartFailed) =>
        \A i \in 1..Len(users) :
            Named(get_secrets_dict(users[i].secrets))
                => \E j \in 1..Len(main.ran) : main.ran[j].i = i

\* the tag that ends the memo, the one main.py:283 appends for the expense
\* (the description before it can hold a tag of its own)
OwnTag(memo) ==
    LET opens == {i \in 1..Len(memo) : memo[i] = "["}
        last == CHOOSE i \in opens : \A j \in opens : j <= i
    IN  IF opens = {} \/ memo[Len(memo)] # "]" THEN NoMatch
        ELSE extract_swid_from_memo(SubSeq(memo, last, Len(memo)))

\* the payloads the last pass built, of the three batches
PassPayloads ==
    pass.ynab_transactions \o pass.updated_transactions
        \o pass.scheduled_transactions

SwidOfExpense(expense) == extract_swid_from_memo(expense.swid).id

\* the payloads of the last pass built for the expense of source id k
PayloadsOf(k) ==
    {j \in 1..Len(PassPayloads) : OwnTag(PassPayloads[j].memo).id = k}

\* the calls of the last pass of one method
CallsTo(op) == {c \in 1..Len(pass.calls) : pass.calls[c].op = op}

\* the fetched records of the last pass whose tag carries source id k
FetchedOf(k) ==
    {i \in 1..Len(pass.expenses) : SwidOfExpense(pass.expenses[i]) = k}

\* C3: when a fetch holds several records of one source id with different
\* updated_time (dated, not deleted, nothing in the DedupIndex), the pass
\* builds exactly one transaction for the id, with the date, amount and memo
\* (description and tag) of the record with the latest updated_time.
C3_RevisionCollapse ==
    pass.ran =>
        \A k \in 1..MaxSwId :
            LET R == FetchedOf(k)
                latest == pass.expenses[CHOOSE i \in R : \A j \in R :
                              RevOf(pass.expenses[j]) <= RevOf(pass.expenses[i])]
            IN  (/\ Cardinality(R) >= 2
                 /\ \A i, j \in R : i # j =>
                        pass.expenses[i].updated_time # pass.expenses[j].updated_time
                 /\ \A i \in R : /\ pass.expenses[i].date # None
                                 /\ ~pass.expenses[i].deleted_time
                 /\ DOMAIN pass.dedup_index = {})
                => \E j \in 1..Len(PassPayloads) :
                       /\ PayloadsOf(k) = {j}
                       /\ PassPayloads[j].date = latest.date
                       /\ PassPayloads[j].amount = BuildTransaction(latest).amount
                       /\ PassPayloads[j].memo = BuildTransaction(latest).memo

\* C4: with an empty DedupIndex and a fetch of different records, all dated
\* and none deleted or in the future, the pass issues one bulk create that carries
\* one transaction for each distinct source id of the fetch and one for each
\* record without a parsable tag.
C4_DistinctIdIndependence ==
    (/\ pass.ran
     /\ DOMAIN pass.dedup_index = {}
     /\ \A i, j \in 1..Len(pass.expenses) :
            i # j => pass.expenses[i] # pass.expenses[j]
     /\ \A i \in 1..Len(pass.expenses) :
            /\ pass.expenses[i].date # None
            /\ pass.expenses[i].date <= pass.now
            /\ ~pass.expenses[i].deleted_time)
    => LET ids == {SwidOfExpense(pass.expenses[i]) :
                      i \in 1..Len(pass.expenses)} \ {None}
           n == Cardinality(ids) + Cardinality(FetchedOf(None))
       IN  IF n = 0 THEN CallsTo("create_transaction") = {}
           ELSE \E c \in 1..Len(pass.calls) :
                    /\ CallsTo("create_transaction") = {c}
                    /\ Len(pass.calls[c].transactions) = n

\* the expenses the loop of the last pass took up: those that survived the
\* collapse of revisions, up to the one at which an exception ended the pass
Processed == {pass.valid_expenses[i] : i \in 1..pass.processed}

DeletedAndPresent(expense) ==
    /\ expense.deleted_time
    /\ SwidOfExpense(expense) \in DOMAIN pass.dedup_index

DeletedAndAbsent(expense) ==
    /\ expense.deleted_time
    /\ SwidOfExpense(expense) \notin DOMAIN pass.dedup_index

\* C7: for each deleted expense the pass takes up whose source id is in the
\* DedupIndex, the pass issues exactly one delete call against the id of the
\* indexed ledger transaction and builds no payload for the expense.
C7_DeletedAndPresent ==
    pass.ran =>
        \A expense \in Processed :
            DeletedAndPresent(expense) =>
                /\ Cardinality({c \in CallsTo("delete_transaction") :
                       pass.calls[c].transaction_id =
                           pass.dedup_index[SwidOfExpense(expense)].id}) = 1
                /\ PayloadsOf(SwidOfExpense(expense)) = {}

\* C8: a deleted expense whose source id is not in the DedupIndex causes no
\* delete call (the delete calls of a pass are those of the deleted expenses
\* that are in the index), no payload (none carries its source id, and the
\* pass builds no more payloads than it took up expenses that are not
\* deleted) and no exception (the expense at which an exception left the
\* pass is not such an expense); a pass that fetched only such expenses
\* issues no call and returns 0.
C8_DeletedAndAbsent ==
    pass.ran =>
        /\ pass.raised
               => ~DeletedAndAbsent(pass.valid_expenses[pass.processed])
        /\ \A c \in CallsTo("delete_transaction") :
               \E expense \in Processed :
                   /\ DeletedAndPresent(expense)
                   /\ pass.calls[c].transaction_id =
                          pass.dedup_index[SwidOfExpense(expense)].id
        /\ \A expense \in Processed :
               (DeletedAndAbsent(expense) /\ SwidOfExpense(expense) # None)
                   => PayloadsOf(SwidOfExpense(expense)) = {}
        /\ Len(PassPayloads) <=
               Cardinality({i \in 1..pass.processed :
                               ~pass.valid_expenses[i].deleted_time})
        /\ (\A i \in 1..Len(pass.expenses) : DeletedAndAbsent(pass.expenses[i]))
               => /\ pass.calls = <<>>
                  /\ ~pass.raised
                  /\ pass.ret = 0

\* the methods that submit the batches of a pass
SubmissionOps ==
    {"create_transaction", "update_transactions", "create_scheduled_transaction"}

\* a submission of the last pass raised
SubmissionFailed ==
    /\ pass.ran
    /\ pass.failed_call > 0
    /\ pass.calls[pass.failed_call].op \in SubmissionOps

\* C11: when a submission call of the pass raises (the bulk create, the bulk
\* update or a scheduled create), it is the last call of the pass, the pass
\* returns 1 and no exception leaves it.
C11_BatchFailure ==
    SubmissionFailed =>
        /\ Len(pass.calls) = pass.failed_call
        /\ pass.ret = 1
        /\ ~pass.raised

\* a bulk create that raised with an update batch waiting behind it
C11_Witness ==
    /\ SubmissionFailed
    /\ pass.calls[pass.failed_call].op = "create_transaction"
    /\ Len(pass.updated_transactions) > 0
    /\ CallsTo("update_transactions") = {}
    /\ pass.ret = 1

\* C12: whichever write call of the pass raises (delete, bulk create, bulk
\* update or scheduled create), no exception leaves sw_to_ynab and the pass
\* returns a value that is not 0.
C12_NoWriteFailureCrashes ==
    (pass.ran /\ pass.failed_call > 0) => (~pass.raised /\ pass.ret # 0)

\* the sum of the owed shares of the entries of an expense, exactly
RECURSIVE SumOwed(_)
SumOwed(entries) ==
    IF Len(entries) = 0 THEN FromInt(0)
    ELSE ExactSum(entries[1].owed, SumOwed(Tail(entries)))

\* |x| <= 0.01, for a number x of any size of man
WithinCent(x) ==
    \/ Len(x.man) = 0
    \/ /\ x.exp < 0
       /\ ~BLess(ShlBits(<<1>>, 0 - x.exp), Trim(MulFrom(x.man, 100, 1, 0)))

\* the expenses the reverse passes of the process handed to create_expense
CreatedBy(reverse) ==
    {reverse.calls[c].payload :
        c \in {c \in 1..Len(reverse.calls) :
                  reverse.calls[c].op = "create_expense"}}

ReverseExpenses ==
    UNION {CreatedBy(main.ran[j].run.reverse) : j \in 1..Len(main.ran)}

\* C13: in every expense update_splitwise submits, the owed share of the
\* current user plus the owed shares of the friend entries differs from the
\* cost by 0.01 at most.
C13_ReverseSplitSums ==
    \A expense \in ReverseExpenses :
        WithinCent(ExactSum(SumOwed(expense.users), FNeg(expense.cost)))

\* the create_expense calls of a reverse pass that gave no expense: they
\* returned errors, returned nothing or raised
FailedCreates(reverse) ==
    {c \in 1..Len(reverse.calls) :
        /\ reverse.calls[c].op = "create_expense"
        /\ reverse.calls[c].result # "ok"}

\* the ledger transaction a call of the reverse pass is about is in the
\* ledger after the pass as it was before the pass
Untouched(run, call) ==
    \E t \in run.forward.transactions :
        /\ t.id = call.transaction_id
        /\ t \in run.reverse.transactions
        /\ t \in run.transactions

\* C14: when create_expense returns errors, returns no expense or raises, the
\* ledger transaction it was called for stays as it was (no sub-lines, memo
\* not prefixed) and no update_transaction is issued for it.
C14_FailedCreateLeavesLedger ==
    \A j \in 1..Len(main.ran) :
        LET run == main.ran[j].run
        IN  \A c \in FailedCreates(run.reverse) :
                /\ Untouched(run, run.reverse.calls[c])
                /\ \A u \in 1..Len(run.reverse.calls) :
                       run.reverse.calls[u].op = "update_transaction"
                           => run.reverse.calls[u].transaction_id
                                  # run.reverse.calls[c].transaction_id

\* a process that has ended after a create_expense that returned errors for
\* a transaction the ledger still holds
C14_Witness ==
    /\ Terminated
    /\ \E j \in 1..Len(main.ran) :
           \E c \in FailedCreates(main.ran[j].run.reverse) :
               /\ main.ran[j].run.reverse.calls[c].result = "errors"
               /\ Untouched(main.ran[j].run, main.ran[j].run.reverse.calls[c])

\* the ledger transactions a reverse pass stored with update_transaction
\* after their expense was created
MirroredBack(run) ==
    {run.reverse.calls[c].payload :
        c \in {c \in 1..Len(run.reverse.calls) :
                  /\ run.reverse.calls[c].op = "update_transaction"
                  /\ run.reverse.calls[c].result = "ok"}}

\* C15: a ledger transaction that a reverse pass mirrored (expense created,
\* memo prefixed, update stored) is in the ledger in a form that the test of
\* the memo of a later reverse pass does not select.
C15_ReverseMirrorAtMostOnce ==
    \A j \in 1..Len(main.ran) :
        \A t \in MirroredBack(main.ran[j].run) :
            t \in main.ran[j].run.transactions => ~Selected(t)

\* the positions, in the yielded list, of the dicts with the id of an object
YieldedOf(expense) ==
    {k \in 1..Len(sw_fetch.expenses) : sw_fetch.expenses[k].id = expense.id}

\* the objects of the fetch that are debt-consolidation expenses, without a
\* group and with one
Consolidations(grouped) ==
    {i \in 1..Len(sw_fetch.objects) :
        /\ sw_fetch.objects[i].creation_method = "debt_consolidation"
        /\ sw_fetch.objects[i].date # None
        /\ _expense_involves_current_user(sw_fetch.objects[i], CurrentUser)
        /\ grouped = (Len(_expense_group_name(sw_fetch.objects[i])) > 0)}

\* C16 as stated: get_expenses yields no dict for a debt-consolidation
\* expense without a group, and one for a debt-consolidation expense with a
\* group.
C16_ConsolidationSkipped ==
    sw_fetch.done =>
        /\ \A i \in Consolidations(FALSE) : YieldedOf(sw_fetch.objects[i]) = {}
        /\ \A i \in Consolidations(TRUE) :
               Cardinality(YieldedOf(sw_fetch.objects[i])) = 1

\* the objects of the fetch, each with the creation method of an ordinary
\* expense in place of its own
AsOrdinary(objects) ==
    [i \in 1..Len(objects) |-> [objects[i] EXCEPT !.creation_method = "equal"]]

\* C16 as amended: get_expenses treats a debt-consolidation expense, with or
\* without a group, like an ordinary expense: it raises on a fetch exactly
\* when it raises on the same objects made ordinary expenses, and otherwise
\* yields the dicts it yields for those.
C16_ConsolidationYielded ==
    sw_fetch.done =>
        LET ordinary == AsOrdinary(sw_fetch.objects)
        IN  /\ sw_fetch.raised =
                   (\E i \in 1..Len(ordinary) : Aborts(ordinary[i], CurrentUser))
            /\ ~sw_fetch.raised =>
                   /\ Len(sw_fetch.expenses) =
                          Cardinality({i \in 1..Len(ordinary) :
                              /\ ordinary[i].date # None
                              /\ _expense_involves_current_user(ordinary[i],
                                                                CurrentUser)})
                   /\ \A i \in 1..Len(ordinary) :
                          \A k \in YieldedOf(ordinary[i]) :
                              sw_fetch.expenses[k] =
                                  ExpenseDict(ordinary[i], CurrentUser)

\* a fetch of a debt-consolidation expense without a group and of one with
\* a group, both yielded
C16_Witness ==
    /\ sw_fetch.done
    /\ Consolidations(FALSE) # {}
    /\ Consolidations(TRUE) # {}
    /\ Len(sw_fetch.expenses) = 2

\* the secrets run j of the process was called with
SecretsOf(j) ==
    IF main.ran[j].i = 0 THEN main.environ
    ELSE get_secrets_dict(users[main.ran[j].i].secrets)

\* a required credential is missing: a secret of the dict, or the account
\* name of os.environ
MissingCredential(secrets_dict) ==
    \/ \E k \in 1..Len(SecretKeys) : SecretKeys[k] \notin DOMAIN secrets_dict
    \/ AccountNameKey \notin DOMAIN main.environ

\* C17: a run with a required credential missing ends with an assertion
\* error before the clients are constructed and before either pass starts:
\* no call is issued and the ledger is as it was.
C17_ConfigFailFast ==
    \A j \in 1..Len(main.ran) :
        MissingCredential(SecretsOf(j)) =>
            /\ main.ran[j].run.asserted
            /\ main.ran[j].run.raised
            /\ ~main.ran[j].run.clients
            /\ ~main.ran[j].run.forward.ran
            /\ ~main.ran[j].run.reverse.ran
            /\ main.ran[j].run.forward.calls = <<>>
            /\ main.ran[j].run.reverse.calls = <<>>

\* a process that crashed in its first run, the account name missing in
\* os.environ, with a ledger that held transactions to work on
C17_Witness ==
    /\ main.pc = "crashed"
    /\ Len(main.ran) = 1
    /\ MissingCredential(SecretsOf(1))
    /\ AccountNameKey \notin DOMAIN main.environ
    /\ main.ran[1].run.asserted
    /\ ~main.ran[1].run.clients
    /\ \/ main.ran[1].i = 0 /\ ynab_transactions # {}
       \/ main.ran[1].i > 0 /\ users[main.ran[1].i].world.transactions # {}

\* the payloads of the three batches of the pass
BatchPayloads ==
    {pass.ynab_transactions[j] : j \in 1..Len(pass.ynab_transactions)}
    \cup {pass.updated_transactions[j] : j \in 1..Len(pass.updated_transactions)}
    \cup {pass.scheduled_transactions[j] :
              j \in 1..Len(pass.scheduled_transactions)}

\* the positions of the batch whose payload was built for the source id
PayloadsFor(batch, id) ==
    {j \in 1..Len(batch) : OwnTag(batch[j].memo).id = id}

\* the expense is fetched, not deleted, and the index built at the start of
\* the pass holds its source id with another hash
ExistingChanged(expense) ==
    /\ ~expense.deleted_time
    /\ Len(expense.swid) > 0
    /\ extract_swid_from_memo(expense.swid).id \in DOMAIN pass.dedup_index
    /\ check_if_needs_to_update(
           expense, pass.dedup_index[extract_swid_from_memo(expense.swid).id])

\* C18: after a pass that no exception left, every fetched expense that is
\* not deleted and whose source id the DedupIndex holds with another hash,
\* whatever its date, has a payload in the update batch that carries the id
\* of the indexed ledger transaction, and none in the create or the
\* scheduled batch.
C18_ExistingChangedUpdates ==
    (pass.ran /\ ~pass.raised) =>
        \A i \in 1..Len(pass.valid_expenses) :
            ExistingChanged(pass.valid_expenses[i]) =>
                LET id == extract_swid_from_memo(pass.valid_expenses[i].swid).id
                IN  /\ \E j \in PayloadsFor(pass.updated_transactions, id) :
                           pass.updated_transactions[j].id
                               = pass.dedup_index[id].id
                    /\ PayloadsFor(pass.ynab_transactions, id) = {}
                    /\ PayloadsFor(pass.scheduled_transactions, id) = {}

\* the expense is fetched, not deleted, dated after now, and the index built
\* at the start of the pass does not hold its source id
NewFutureDated(expense) ==
    /\ ~expense.deleted_time
    /\ Len(expense.swid) > 0
    /\ extract_swid_from_memo(expense.swid).id \notin DOMAIN pass.dedup_index
    /\ expense.date > pass.now

\* C19: a new, future-dated expense has its payload in the scheduled batch
\* only, built with cleared 'uncleared' (the key is deleted from the payload
\* when it is submitted); the payload submitted for it by
\* create_scheduled_transaction has recurrence 'never' and no import id.
C19_NewFutureDated ==
    (pass.ran /\ ~pass.raised) =>
        \A i \in 1..Len(pass.valid_expenses) :
            NewFutureDated(pass.valid_expenses[i]) =>
                LET id == extract_swid_from_memo(pass.valid_expenses[i].swid).id
                IN  /\ PayloadsFor(pass.ynab_transactions, id) = {}
                    /\ PayloadsFor(pass.updated_transactions, id) = {}
                    /\ PayloadsFor(pass.scheduled_transactions, id) # {}
                    /\ \A j \in PayloadsFor(pass.scheduled_transactions, id) :
                           pass.scheduled_transactions[j].cleared =
                               IF \E c \in CallsTo("create_scheduled_transaction") :
                                      pass.calls[c].transactions[1]
                                          = pass.scheduled_transactions[j]
                               THEN "None" ELSE "uncleared"
                    /\ \A c \in CallsTo("create_scheduled_transaction") :
                           OwnTag(pass.calls[c].transactions[1].memo).id = id
                           => /\ pass.calls[c].transactions[1].frequency = "never"
                              /\ pass.calls[c].transactions[1].import_id
                                     = NoImportId

\* the names joined as 'A, B and C'
JoinedAnd(names) ==
    IF Len(names) = 0 THEN <<>>
    ELSE IF Len(names) = 1 THEN names[1]
    ELSE Join(SubSeq(names, 1, Len(names) - 1), <<",", " ">>)
             \o <<" ", "a", "n", "d", " ">> \o names[Len(names)]

\* the tagged expenses of the pass that the payload was built for
BuiltFor(payload) ==
    {i \in 1..Len(pass.valid_expenses) :
        /\ ~pass.valid_expenses[i].deleted_time
        /\ OwnTag(payload.memo).id # None
        /\ extract_swid_from_memo(pass.valid_expenses[i].swid)
               = OwnTag(payload.memo)}

\* the payload is a single line of what is owed, or has two sub-lines, the
\* total cost and what is owed, the second with the given memo
ShapedFor(payload, expense, owed_memo) ==
    IF expense.current_user_paid
    THEN /\ payload.amount = expense.owed * 1000
         /\ payload.subtransactions = <<>>
    ELSE /\ Len(payload.subtransactions) = 2
         /\ payload.subtransactions[1].amount = 0 - expense.cost * 1000
         /\ payload.subtransactions[1].memo = <<"T", "o", "t", "a", "l", " ", "C", "o", "s", "t">>
         /\ payload.subtransactions[2].amount = expense.owed * 1000
         /\ payload.subtransactions[2].memo = owed_memo

\* C20 as stated: the payload of an expense the current user paid is a
\* single line of int(owed*1000) without sub-lines; any other has exactly two
\* sub-lines, -int(cost*1000) with memo 'Total Cost' and int(owed*1000) with
\* a memo that lists the other participants joined as 'A, B and C'.
C20_PayloadShapeMemoLists ==
    \A payload \in BatchPayloads : \A i \in BuiltFor(payload) :
        ShapedFor(payload, pass.valid_expenses[i],
                  JoinedAnd(pass.valid_expenses[i].users))

\* C20, amended: the payload of an expense the current user paid is a single
\* line of int(owed*1000) without sub-lines; any other has exactly two
\* sub-lines, -int(cost*1000) with memo 'Total Cost' and int(owed*1000) with
\* memo 'What others owe.' and, as payee name, the other participants joined
\* as 'A, B and C'.
C20_PayloadShape ==
    \A payload \in BatchPayloads : \A i \in BuiltFor(payload) :
        /\ ShapedFor(payload, pass.valid_expenses[i], 
              <<"W", "h", "a", "t", " ", "o", "t", "h", "e", "r", "s",
                " ", "o", "w", "e", ".">>)
        /\ ~pass.valid_expenses[i].current_user_paid
           => payload.subtransactions[2].payee_name
                  = JoinedAnd(pass.valid_expenses[i].users)

\* a pass that built a single-line payload for an expense the current user
\* paid and a payload of two sub-lines for one that another user paid
C20_Witness ==
    /\ pass.ran
    /\ \E payload \in BatchPayloads : \E i \in BuiltFor(payload) :
           /\ pass.valid_expenses[i].current_user_paid
           /\ payload.subtransactions = <<>>
    /\ \E payload \in BatchPayloads : \E i \in BuiltFor(payload) :
           /\ ~pass.valid_expenses[i].current_user_paid
           /\ Len(pass.valid_expenses[i].users) > 1
           /\ Len(payload.subtransactions) = 2
           /\ pass.valid_expenses[i].owed # pass.valid_expenses[i].cost

\* C21: every payload built for an expense whose tag carries a source id is
\* the entry of the DedupIndex under that source id, and each key k of the
\* DedupIndex, as first built and as the pass leaves it, maps to a
\* transaction whose memo decodes to source id k.
C21_DedupIndexRegistration ==
    /\ \A payload \in BatchPayloads : \A i \in BuiltFor(payload) :
           LET id == extract_swid_from_memo(pass.valid_expenses[i].swid).id
           IN  /\ id \in DOMAIN pass.swid_to_transaction_mapping
               /\ pass.swid_to_transaction_mapping[id] = payload
    /\ \A k \in DOMAIN pass.dedup_index :
           extract_swid_from_memo(pass.dedup_index[k].memo).id = k
    /\ \A k \in DOMAIN pass.swid_to_transaction_mapping :
           extract_swid_from_memo(pass.swid_to_transaction_mapping[k].memo).id = k

\* the create_expense calls of a reverse pass
Creates(reverse) ==
    {c \in 1..Len(reverse.calls) : reverse.calls[c].op = "create_expense"}

\* the memo, before the reverse pass, of the ledger transaction of the call
MemoBefore(run, call) ==
    (CHOOSE t \in run.forward.transactions : t.id = call.transaction_id).memo

\* C22: the expense submitted for a selected transaction whose memo does not
\* hold the delimiter " with " has the entry of the current user only, whose
\* owed share is the whole cost.
C22_NoDelimiterNoFriends ==
    \A j \in 1..Len(main.ran) :
        \A c \in Creates(main.ran[j].run.reverse) :
            LET call == main.ran[j].run.reverse.calls[c]
            IN  ~Contains(MemoBefore(main.ran[j].run, call),
                          <<" ", "w", "i", "t", "h", " ">>)
                => /\ Len(call.payload.users) = 1
                   /\ call.payload.users[1].owed = call.payload.cost

\* C23: the expense submitted to Splitwise holds the entry of the current
\* user first and then entries of friends of the friend list, no friend id
\* in two entries.
C23_OneEntryPerFriend ==
    \A expense \in ReverseExpenses :
        /\ Len(expense.users) >= 1
        /\ expense.users[1].id = 1
        /\ \A i \in 2..Len(expense.users) :
               /\ \E f \in 1..Len(SwFriends) : SwFriends[f].id = expense.users[i].id
               /\ \A k \in 2..Len(expense.users) :
                      k # i => expense.users[k].id # expense.users[i].id

\* the participants of the object that are the current user (sw.py:53: the
\* user of id 1)
SharesOfCurrentUser(expense, share) ==
    {IF share = "paid" THEN expense.users[u].paid_share
     ELSE expense.users[u].owed_share :
        u \in {u \in 1..Len(expense.users) : expense.users[u].id = 1}}

\* C24 as stated: for every yielded expense, owed is the cost minus the paid
\* share of the participant that is the current user.
C24_OwedIsCostMinusPaidShare ==
    sw_fetch.done =>
        \A i \in 1..Len(sw_fetch.objects) : \A k \in YieldedOf(sw_fetch.objects[i]) :
            \A paid \in SharesOfCurrentUser(sw_fetch.objects[i], "paid") :
                sw_fetch.expenses[k].owed = sw_fetch.expenses[k].cost - paid

\* C24 as amended: for every yielded expense, owed is the cost minus the
\* owed share of the participant that is the current user.
C24_OwedIsCostMinusOwedShare ==
    sw_fetch.done =>
        \A i \in 1..Len(sw_fetch.objects) : \A k \in YieldedOf(sw_fetch.objects[i]) :
            /\ SharesOfCurrentUser(sw_fetch.objects[i], "owed") # {}
            /\ \A share \in SharesOfCurrentUser(sw_fetch.objects[i], "owed") :
                   sw_fetch.expenses[k].owed = sw_fetch.expenses[k].cost - share

\* a fetch that yielded an expense the current user paid in full and one
\* another user paid, her owed share differing from her paid share in both
C24_Witness ==
    /\ sw_fetch.done
    /\ Len(sw_fetch.expenses) = 2
    /\ sw_fetch.expenses[1].current_user_paid
    /\ ~sw_fetch.expenses[2].current_user_paid
    /\ sw_fetch.expenses[1].owed = 50
    /\ sw_fetch.expenses[2].owed = 70
    /\ SharesOfCurrentUser(sw_fetch.objects[1], "paid") = {100}
    /\ SharesOfCurrentUser(sw_fetch.objects[2], "paid") = {0}

\* C25: the calls that submit the batches come after the loop has resolved
\* every expense, the bulk create before the bulk update and both before the
\* scheduled creates; at most one bulk create and one bulk update are
\* issued, none for an empty batch, and when no call fails one scheduled
\* create per transaction of the scheduled batch.
C25_SubmissionOrder ==
    (pass.ran /\ ~pass.raised) =>
        /\ \A c \in 1..Len(pass.calls) :
               pass.calls[c].op \in SubmissionOps
               => /\ pass.processed = Len(pass.valid_expenses)
                  /\ \A d \in c..Len(pass.calls) :
                         pass.calls[d].op \in SubmissionOps
        /\ \A c \in CallsTo("update_transactions") :
               \A d \in CallsTo("create_transaction") : d < c
        /\ \A c \in CallsTo("create_scheduled_transaction") :
               \A d \in CallsTo("create_transaction")
                            \cup CallsTo("update_transactions") : d < c
        /\ Cardinality(CallsTo("create_transaction")) <= 1
        /\ Cardinality(CallsTo("update_transactions")) <= 1
        /\ Len(pass.ynab_transactions) = 0 => CallsTo("create_transaction") = {}
        /\ Len(pass.updated_transactions) = 0
               => CallsTo("update_transactions") = {}
        /\ Len(pass.scheduled_transactions) = 0
               => CallsTo("create_scheduled_transaction") = {}
        /\ pass.failed_call = 0
               => /\ Cardinality(CallsTo("create_scheduled_transaction"))
                         = Len(pass.scheduled_transactions)
                  /\ Len(pass.ynab_transactions) > 0
                         => Cardinality(CallsTo("create_transaction")) = 1
                  /\ Len(pass.updated_transactions) > 0
                         => Cardinality(CallsTo("update_transactions")) = 1

\* a pass without a failure that issued a bulk update and then a scheduled
\* create
C25_Witness ==
    /\ pass.ran
    /\ pass.failed_call = 0
    /\ Len(pass.calls) = 2
    /\ pass.calls[1].op = "update_transactions"
    /\ pass.calls[2].op = "create_scheduled_transaction"

\* C26: in every payload built with sub-lines, the amounts of the two
\* sub-lines add up to the amount of the transaction, in milliunits.
C26_ForwardSplitConsistency ==
    \A payload \in BatchPayloads :
        Len(payload.subtransactions) > 0
        => /\ Len(payload.subtransactions) = 2
           /\ payload.subtransactions[1].amount + payload.subtransactions[2].amount
                  = payload.amount

\* a pass that built a payload with sub-lines for an expense another user
\* paid, of which the current user owes a part
C26_Witness ==
    /\ pass.ran
    /\ \E payload \in BatchPayloads : \E i \in BuiltFor(payload) :
           /\ ~pass.valid_expenses[i].current_user_paid
           /\ Len(payload.subtransactions) = 2
           /\ payload.subtransactions[2].amount > 0
           /\ payload.amount < 0
           /\ payload.amount # payload.subtransactions[1].amount

\* C27: in the transaction update_ynab submits, the amounts of the two
\* sub-lines add up to the amount of the transaction, for every amount in
\* milliunits and every number of friends extracted.
C27_ReverseSplitConsistency ==
    split.done =>
        /\ Len(split.updated.subtransactions) = 2
        /\ split.updated.subtransactions[1].amount
               + split.updated.subtransactions[2].amount
           = split.transaction.amount

\* C28: no expense is created in Splitwise for a ledger transaction whose
\* memo carries a source-id tag, as the mirrors of the forward pass do.
C28_NoFeedbackLoop ==
    \A j \in 1..Len(main.ran) :
        \A c \in Creates(main.ran[j].run.reverse) :
            extract_swid_from_memo(
                MemoBefore(main.ran[j].run,
                           main.ran[j].run.reverse.calls[c])).id = None

\* the calls of a pass that submitted a batch and did not raise
Submissions(p) ==
    {c \in 1..Len(p.calls) :
        p.calls[c].op \in SubmissionOps /\ c # p.failed_call}

\* the source ids of the tags of the payloads
TaggedIds(payloads) ==
    {OwnTag(payloads[t].memo).id : t \in 1..Len(payloads)} \ {None}

\* the source ids for which the pass wrote a mirror
WrittenIds(p) ==
    UNION {TaggedIds(p.calls[c].transactions) : c \in Submissions(p)}

\* the source ids for which the pass built a mirror that it did not write
PendingIds(p) ==
    (TaggedIds(p.ynab_transactions) \cup TaggedIds(p.updated_transactions)
         \cup TaggedIds(p.scheduled_transactions)) \ WrittenIds(p)

\* a pass in which a submission failed was followed by a pass over the same
\* records in which no write call failed
Retried ==
    /\ "first" \in DOMAIN prev
    /\ ~prev.first.raised
    /\ pass.ran
    /\ pass.failed_call = 0

\* C29: what the failed pass wrote before the failing call is in the ledger
\* it left, and the next pass over the same records, no write call failing,
\* writes a mirror for the source ids whose mirror the failed pass built and
\* did not write, and for no other.
C29_RecoveryAfterFailure ==
    Retried =>
        /\ \A c \in Submissions(prev.first) :
               \A t \in 1..Len(prev.first.calls[c].transactions) :
                   \E stored \in prev.first.transactions \cup prev.first.scheduled :
                       stored.memo = prev.first.calls[c].transactions[t].memo
        /\ WrittenIds(pass) = PendingIds(prev.first)

\* the users of the objects of the fetch
FetchedUsers ==
    UNION {{sw_fetch.objects[i].users[u] : u \in 1..Len(sw_fetch.objects[i].users)} :
              i \in 1..Len(sw_fetch.objects)}

\* C30: for every user with an id, whatever names it has,
\* get_user_first_and_last_name_with_id gives "User #<id>" when it has no
\* name and a text that ends with " - <id>" when it has one, and
\* get_expenses does not end with an AssertionError.
C30_NamingNeverFails ==
    /\ \A user \in FetchedUsers :
           LET name == get_user_first_and_last_name_with_id(user)
               tail == <<" ", "-", " ">> \o Str(user.id)
           IN  /\ name # AssertionError
               /\ IF Len(user.first_name) = 0 /\ Len(user.last_name) = 0
                  THEN name = <<"U", "s", "e", "r", " ", "#">> \o Str(user.id)
                  ELSE /\ Len(name) > Len(tail)
                       /\ SubSeq(name, Len(name) - Len(tail) + 1, Len(name)) = tail
    /\ sw_fetch.done => ~sw_fetch.raised
====
